---- MODULE Spec2Model ----
(***************************************************************************)
(* State-machine model of the scraping engine in src/scraper.py:           *)
(* WebScraper.scrape (strategy selection and merge), the fetch pass        *)
(* (_static_scrape) and the render pass (_js_scrape with its interaction   *)
(* scripts).  Python dicts are records / functions with string domains,    *)
(* Python lists are sequences, Python strings are TLA+ strings.            *)
(***************************************************************************)
EXTENDS Integers, Sequences, FiniteSets, TLC

VARIABLES
    url,                   \* argument of scrape(url)
    PLAYWRIGHT_AVAILABLE,  \* module flag set at import time
    pc,                    \* position inside scrape
    result,                \* scrape's local `result`
    domain,                \* scrape's local `domain`
    force_js,              \* scrape's local `force_js`
    needs_js,              \* scrape's local `needs_js`
    static_result,         \* value returned by _static_scrape
    js_result,             \* _js_scrape's local `result` (returned at the end)
    jpc,                   \* position inside _js_scrape
    pending,               \* exception in flight inside _js_scrape
    page,                  \* the page the browser session has loaded
    browser,               \* browser session: "none" | "open" | "closed"
    raised,                \* exception that left scrape to its caller
    fetch_calls,           \* number of invocations of _static_scrape
    client,                \* the fetch pass's httpx.AsyncClient and its GETs
    render_calls,          \* number of invocations of _js_scrape
    trace,                 \* order in which scrape reached its steps
    doc,                   \* markup tree handed to _extract_sections (`parser`)
    epc,                   \* position inside _extract_sections
    landmarks,             \* _extract_sections' local `landmarks`
    idx,                   \* number of landmarks processed by the loop of line 620
    esections,             \* _extract_sections' local `sections`
    hidx,                  \* number of headings processed by the loop of line 786
    heading_sections,      \* _extract_by_headings' local `sections`
    element,               \* argument of the last call of _process_section
    section,               \* value returned by the last call of _process_section
    dedup_in,              \* argument of the last call of _deduplicate_sections
    dedup_calls,           \* number of calls of _deduplicate_sections
    suspended              \* the locals of another invocation of scrape that
                           \* waits at one of its awaits

\* the variables of scrape and its passes
scrapeVars == <<url, PLAYWRIGHT_AVAILABLE, pc, result, domain, force_js, needs_js,
                static_result, js_result, jpc, pending, page, browser, raised,
                fetch_calls, client, render_calls, trace>>

\* the variables of the content extractor
extractVars == <<doc, epc, landmarks, idx, esections, hidx, heading_sections,
                 element, section, dedup_in, dedup_calls>>

vars == <<scrapeVars, extractVars, suspended>>

-----------------------------------------------------------------------------
(* Bounds of the model *)

\* largest number of sections a markup tree of the model yields
MaxSections == 5

-----------------------------------------------------------------------------
(* Python values *)

None == "None"
NoException == [type |-> "none", message |-> ""]

\* Python truthiness of a string-or-None value
Truthy(v) == v # None /\ v # ""

\* dict.get(key, default)
Get(d, k, default) == IF k \in DOMAIN d THEN d[k] ELSE default

\* dict.update(other): keys of other overwrite, the remaining keys stay
Update(d, o) ==
    [k \in DOMAIN d \cup DOMAIN o |-> IF k \in DOMAIN o THEN o[k] ELSE d[k]]

\* d[k] = v, adding the key when it is absent
SetItem(d, k, v) == [x \in DOMAIN d \cup {k} |-> IF x = k THEN v ELSE d[x]]

\* s[:n]
Prefix(s, n) == IF n >= Len(s) THEN s ELSE SubSeq(s, 1, n)

\* s.find(t, i - 1) + 1, or 0 when t does not occur in s from index i on
RECURSIVE FindFrom(_, _, _)
FindFrom(s, t, i) ==
    IF i + Len(t) - 1 > Len(s) THEN 0
    ELSE IF SubSeq(s, i, i + Len(t) - 1) = t THEN i
    ELSE FindFrom(s, t, i + 1)

\* s.find(t) + 1, or 0 when t does not occur in s
Find(s, t) == FindFrom(s, t, 1)

\* `t in s` for strings
Contains(s, t) == Find(s, t) # 0

UpperCase == "ABCDEFGHIJKLMNOPQRSTUVWXYZ"
LowerCase == "abcdefghijklmnopqrstuvwxyz"

\* the lowercase letter of every uppercase letter
UpperToLower ==
    [c \in {SubSeq(UpperCase, i, i) : i \in 1..26} |->
        LET i == Find(UpperCase, c) IN SubSeq(LowerCase, i, i)]

LowerChar(c) == IF c \in DOMAIN UpperToLower THEN UpperToLower[c] ELSE c

\* s[a-1:b].lower(), by halves to keep the recursion shallow
RECURSIVE LowerRange(_, _, _)
LowerRange(s, a, b) ==
    IF a > b THEN ""
    ELSE IF a = b THEN LowerChar(SubSeq(s, a, a))
    ELSE LowerRange(s, a, (a + b) \div 2) \o LowerRange(s, (a + b) \div 2 + 1, b)

\* str.lower()
Lower(s) == LowerRange(s, 1, Len(s))

\* sum(f(x) for x in seq) over a sequence of numbers
RECURSIVE Sum(_)
Sum(seq) == IF seq = <<>> THEN 0 ELSE Head(seq) + Sum(Tail(seq))

Min(a, b) == IF a < b THEN a ELSE b

-----------------------------------------------------------------------------
(* urllib.parse.urlparse(url).netloc, for scheme://netloc/path URLs *)

\* index of the first of "/", "?", "#" in s, or Len(s) + 1
NetlocEnd(s) ==
    LET hits == {i \in 1..Len(s) : SubSeq(s, i, i) \in {"/", "?", "#"}}
    IN  IF hits = {} THEN Len(s) + 1
        ELSE CHOOSE i \in hits : \A j \in hits : i <= j

\* the netloc of u; urlsplit raises ValueError on an unbalanced bracket
urlparse(u) ==
    LET colon == Find(u, ":")
        rest  == SubSeq(u, colon + 1, Len(u))
        net   == IF colon > 0 /\ Prefix(rest, 2) = "//"
                 THEN LET tail == SubSeq(rest, 3, Len(rest))
                      IN  SubSeq(tail, 1, NetlocEnd(tail) - 1)
                 ELSE ""
    IN  IF Contains(net, "[") # Contains(net, "]")
        THEN [ok |-> FALSE, netloc |-> "",
              exc |-> [type |-> "ValueError", message |-> "Invalid IPv6 URL"]]
        ELSE [ok |-> TRUE, netloc |-> net, exc |-> NoException]

\* urllib.parse.urljoin(base, href) for absolute, query-only and
\* fragment-only references
urljoin(base, href) ==
    LET q == Find(base, "?")
        noQuery == IF q = 0 THEN base ELSE SubSeq(base, 1, q - 1)
    IN  IF Prefix(href, 4) = "http" THEN href
        ELSE IF Prefix(href, 1) = "?" THEN noQuery \o href
        ELSE IF href = "#" THEN base
        ELSE base \o href

\* the URLs handed to scrape
Urls ==
    { "https://example.com/blog",
      "https://en.Wikipedia.org/wiki/TLA",
      "https://www.dropbox.com/home",
      "http://[::1/page" }

-----------------------------------------------------------------------------
(* WebScraper.__init__ *)

max_scrolls == 3
max_pages == 3

-----------------------------------------------------------------------------
(* Markup as the passes see it: what _extract_meta and _extract_sections    *)
(* return for the markup a pass obtained.                                   *)

Text40  == "Lorem ipsum dolor sit amet consectetuer."
Text100 == "Lorem ipsum dolor sit amet, consectetuer adipiscing elit. Aenean"
           \o " commodo ligula eget dolor. Aenean m"
TextJs  == "Rendered by script: lorem ipsum dolor sit amet consectetuer."

\* a section as _process_section returns it (the fields scrape reads)
Section(u, t) == [sourceUrl |-> u, content |-> [text |-> t]]

\* all sequences over S of length 0..n
SeqsUpTo(S, n) == UNION {[1..k -> S] : k \in 0..n}

\* section lists of fetched markup
StaticSectionLists(u) ==
    SeqsUpTo({Section(u, Text40), Section(u, Text100)}, MaxSections)

\* section lists of rendered markup
JsSectionLists(u) == SeqsUpTo({Section(u, TextJs)}, MaxSections)

\* the head of a document as _extract_meta reads it: the title element's
\* text, the description content, the lang attribute of the html element and
\* the href of the canonical link ("" where the element or attribute is
\* missing)
Head0 == [title |-> "", description |-> "", lang |-> "", canonical |-> ""]

\* heads of fetched markup
StaticHeads ==
    { Head0,
      [title |-> "Example Domain", description |-> "Fetched description",
       lang |-> "en-US", canonical |-> "https://example.com/blog"] }

\* heads of rendered markup
JsHeads ==
    { [title |-> "", description |-> "Rendered description",
       lang |-> "fr", canonical |-> "?rendered=1"],
      [title |-> "Rendered Domain", description |-> "Rendered description",
       lang |-> "fr", canonical |-> "?rendered=1"] }

\* _extract_meta: the four keys are always present
_extract_meta(head, u) ==
    LET dash == Find(head.lang, "-")
    IN  [title |-> head.title,
         description |-> head.description,
         language |-> IF head.lang = "" THEN "en"
                      ELSE IF dash = 0 THEN head.lang
                      ELSE SubSeq(head.lang, 1, dash - 1),
         canonical |-> IF head.canonical # "" THEN urljoin(u, head.canonical)
                       ELSE None]

-----------------------------------------------------------------------------
(* _should_force_js and _needs_js_rendering *)

js_heavy_domains ==
    { "wikipedia.org", "wikimedia.org", "medium.com", "vercel.com",
      "twitter.com", "x.com", "reddit.com", "linkedin.com", "instagram.com",
      "facebook.com", "youtube.com", "netflix.com", "airbnb.com", "uber.com" }

\* _should_force_js comparing the whole host instead of searching it
_should_force_js_exact(host) == host \in js_heavy_domains

\* _should_force_js accepting a listed domain and its subdomains only
_should_force_js_subdomain(host) ==
    \E d \in js_heavy_domains :
        \/ host = d
        \/ /\ Len(host) > Len(d)
           /\ SubSeq(host, Len(host) - Len(d), Len(host)) = "." \o d

_should_force_js(host) == \E d \in js_heavy_domains : Contains(host, d)

blocked_errors == {"403", "429", "Forbidden", "Too Many Requests"}

\* _needs_js_rendering without the blocked-error check
_needs_js_rendering_noblock(res) ==
    LET sections == Get(res, "sections", <<>>)
        total_text ==
            Sum([i \in 1..Len(sections) |->
                    Len(Get(Get(sections[i], "content", [text |-> ""]), "text", ""))])
    IN  Len(sections) < 2 \/ total_text < 200

\* _needs_js_rendering with the text threshold compared by <=
_needs_js_rendering_le(res) ==
    LET sections == Get(res, "sections", <<>>)
        errors   == Get(res, "errors", <<>>)
        blocked  == \E i \in 1..Len(errors) : \E block \in blocked_errors :
                        Contains(Get(errors[i], "message", ""), block)
        total_text ==
            Sum([i \in 1..Len(sections) |->
                    Len(Get(Get(sections[i], "content", [text |-> ""]), "text", ""))])
    IN  ~blocked /\ (Len(sections) < 2 \/ total_text <= 200)

_needs_js_rendering(res) ==
    LET sections == Get(res, "sections", <<>>)
        errors   == Get(res, "errors", <<>>)
        blocked  == \E i \in 1..Len(errors) : \E block \in blocked_errors :
                        Contains(Get(errors[i], "message", ""), block)
        total_text ==
            Sum([i \in 1..Len(sections) |->
                    Len(Get(Get(sections[i], "content", [text |-> ""]), "text", ""))])
    IN  IF blocked THEN FALSE
        ELSE IF Len(sections) < 2 THEN TRUE
        ELSE IF total_text < 200 THEN TRUE
        ELSE FALSE

-----------------------------------------------------------------------------
(* _static_scrape *)

\* what the GET and the extraction can do
FetchOutcomes(u) ==
         {[kind |-> "ok", head |-> h, sections |-> s] :
              h \in StaticHeads, s \in StaticSectionLists(u)}
    \cup {[kind |-> "status", code |-> c[1], reason |-> c[2]] :
              c \in { <<"403", "Forbidden">>, <<"429", "Too Many Requests">>,
                      <<"404", "Not Found">>,
                      <<"500", "Internal Server Error">> }}
    \cup {[kind |-> "timeout"]}
    \cup {[kind |-> "error", message |-> m] :
              m \in { "All connection attempts failed",
                      "Exceeded maximum allowed redirects (last: /r/429)" }}
    \cup {[kind |-> "extract_error", head |-> h,
           message |-> "'NoneType' object has no attribute 'split'"] :
              h \in StaticHeads}

\* no httpx.AsyncClient was created yet
NoClient == [state |-> "none", gets |-> 0, answer |-> None, status |-> None]

\* the result dict built at the top of a pass
PassResult(u, strategy) ==
    [meta |-> [strategy |-> strategy],
     sections |-> <<>>,
     interactions |-> [clicks |-> <<>>, scrolls |-> 0, pages |-> <<u>>],
     errors |-> <<>>]

\* the same without the suggestion
StaticStatusError_plain(o) ==
    [message |-> "HTTP " \o o.code \o ": " \o o.reason, phase |-> "fetch"]

\* except httpx.HTTPStatusError
StaticStatusError(o) ==
    [message |-> "HTTP " \o o.code \o ": " \o o.reason,
     phase |-> "fetch",
     suggestion |-> "Site may be blocking automated requests. Try JS rendering."]

\* except httpx.TimeoutException
StaticTimeoutError ==
    [message |-> "Request timed out after 30 seconds", phase |-> "fetch"]

\* except Exception
StaticOtherError(o) == [message |-> o.message, phase |-> "fetch"]

_static_scrape(u, o) ==
    LET r0 == PassResult(u, "static")
        withMeta == [r0 EXCEPT !.meta =
                        SetItem(_extract_meta(o.head, u), "strategy", "static")]
    IN  CASE o.kind = "ok" ->
                [withMeta EXCEPT !.sections = o.sections]
          [] o.kind = "extract_error" ->
                [withMeta EXCEPT !.errors = Append(@, StaticOtherError(o))]
          [] o.kind = "status" ->
                [r0 EXCEPT !.errors = Append(@, StaticStatusError(o))]
          [] o.kind = "timeout" ->
                [r0 EXCEPT !.errors = Append(@, StaticTimeoutError)]
          [] OTHER ->
                [r0 EXCEPT !.errors = Append(@, StaticOtherError(o))]


-----------------------------------------------------------------------------
(* Pages as the render pass sees them *)

\* str(i) for one digit
Digit(i) == SubSeq("0123456789", i + 1, i + 1)

noise_selectors ==
    << "[class*=\"cookie\"]", "[id*=\"cookie\"]", "[class*=\"modal\"]",
       "[class*=\"overlay\"]", "[class*=\"popup\"]", "[class*=\"consent\"]",
       "[aria-label*=\"cookie\" i]", "[aria-label*=\"consent\" i]",
       ".gdpr", "#gdpr" >>

tab_selectors ==
    << "[role=\"tab\"]", "button[aria-selected]", ".tab:not(.active)",
       ".tabs button", "[data-tab]" >>

load_more_selectors ==
    << "button:has-text(\"Load more\")", "button:has-text(\"Show more\")",
       "button:has-text(\"View more\")", "button:has-text(\"Read more\")",
       "a:has-text(\"Load more\")", "[class*=\"load-more\"]",
       "[class*=\"show-more\"]" >>

\* the third pattern is an arrow glyph in the source, written -> here
next_selectors ==
    << "a:has-text(\"Next\")", "a:has-text(\">\")", "a:has-text(\"->\")",
       "a[rel=\"next\"]", "a[aria-label*=\"next\" i]",
       "[class*=\"next\"]:not([class*=\"disabled\"])",
       "[class*=\"pagination\"] a:last-child", "button:has-text(\"More\")" >>

\* one call the page received: the script that made it, the operation, the
\* position of the selector in its list, the ordinal of the element, attempt,
\* round or iteration, and whether the call returned (FALSE: it raised); for
\* a scroll round, the place of the selector holds the number of sub-steps
Call(script, op, sel, n, ok) ==
    [script |-> script, op |-> op, sel |-> sel, n |-> n, ok |-> ok]

\* the page after it received `calls`
Called(p, calls) == [p EXCEPT !.calls = @ \o calls]

\* n attempts that find a visible button and click it
Oks(n) == [j \in 1..n |-> "ok"]

\* what the selectors of a pagination iteration find: the k-th finds a
\* visible control, the others find nothing
Scan(k) == [j \in 1..Len(next_selectors) |-> IF j = k THEN "visible" ELSE "none"]

\* A page: the noise selectors whose evaluate raises; per tab selector the
\* number of elements query_selector_all returns (-1: the query raises) and
\* the ordinals whose click raises; per load-more selector what the
\* successive attempts meet ("ok": a visible button whose click succeeds,
\* "fail": a visible button whose click raises, "raise": the query raises,
\* "none" and every attempt after the last listed: no visible match); the
\* document height before the first scroll round and after each round and
\* the round in which an evaluate raises (0: none); per round the number of
\* scrollBy sub-steps that random.randint(3, 5) draws; per pagination iteration
\* what each next selector meets ("visible", "hidden", "none",
\* "query_raises", "visible_raises": is_visible raises), the href of the
\* control and whether get_attribute or the click raises; the calls received.
PlainPage ==
    [noise_fail |-> {},
     tabs |-> <<0, 0, 0, 0, 0>>, tab_fail |-> {},
     more |-> <<<<>>, <<>>, <<>>, <<>>, <<>>, <<>>, <<>>>>,
     heights |-> <<900, 900, 900, 900>>, scroll_fail |-> 0,
     scroll_steps |-> <<3, 4, 5>>,
     links |-> <<>>,
     calls |-> <<>>]

Link(href, attr_fail, click_fail) ==
    [scan |-> Scan(1), href |-> href, attr_fail |-> attr_fail,
     click_fail |-> click_fail]

RichPage ==
    [PlainPage EXCEPT
        !.tabs = <<-1, 0, 4, 2, 0>>, !.tab_fail = {1},
        !.more = <<Oks(2), <<>>, <<>>, <<>>, <<>>, Oks(5), <<>>>>,
        !.heights = <<900, 1800, 2700, 3600>>,
        !.links = <<Link("?page=2", FALSE, FALSE), Link("?page=3", FALSE, FALSE),
                    Link("?page=4", FALSE, FALSE)>>]

\* a page on which a sub-step of every interaction script fails
BrokenPage ==
    [RichPage EXCEPT
        !.noise_fail = {1, 10},
        !.more = <<<<"ok", "fail">>, <<"raise">>, <<>>, <<>>, <<>>, Oks(1), <<>>>>,
        !.scroll_fail = 2,
        !.links = <<Link("?page=2", FALSE, FALSE), Link("", TRUE, FALSE)>>]

PageEnvs ==
    { PlainPage, RichPage, BrokenPage,
      [PlainPage EXCEPT !.tabs = <<0, 2, 1, 0, 0>>],
      [PlainPage EXCEPT !.more = <<<<>>, Oks(1), <<>>, <<>>, <<>>, <<>>, <<>>>>],
      [PlainPage EXCEPT !.heights = <<900, 1800, 1800, 1800>>],
      [PlainPage EXCEPT !.scroll_fail = 1],
      [RichPage EXCEPT !.scroll_fail = 2],
      [PlainPage EXCEPT !.links = <<Link("?page=2", FALSE, TRUE)>>],
      [PlainPage EXCEPT !.links = <<Link("#", FALSE, FALSE),
                                    Link("?page=2", FALSE, FALSE)>>],
      [PlainPage EXCEPT !.links = <<Link(None, FALSE, FALSE)>>],
      [PlainPage EXCEPT !.links = <<Link("?page=2", FALSE, FALSE),
                                    Link("", TRUE, FALSE)>>] }

\* exceptions the browser engine raises
PlaywrightTimeout ==
    [type |-> "PlaywrightTimeout", message |-> "Timeout 30000ms exceeded."]
PlaywrightError ==
    [type |-> "Error", message |-> "net::ERR_CONNECTION_REFUSED"]
RenderExceptions == {PlaywrightTimeout, PlaywrightError}

-----------------------------------------------------------------------------
(* Interaction scripts *)

\* Each script is given the page and the result dict and yields the result
\* dict it leaves behind, the exception that leaves it (NoException: it
\* returns) and the calls it made on the page.

\* lines 365-371: every selector is evaluated, a failure is passed over
_remove_noise(p) ==
    [raised |-> NoException,
     calls |-> [k \in 1..Len(noise_selectors) |->
                   Call("noise", "evaluate", k, 0, k \notin p.noise_fail)]]


\* Ordinals recording the clicks that raised as well
Ordinals_all(i, n, skip) == [j \in 1..(n - i) |-> i + j - 1]

\* the ordinals 0..n-1 that are not in `skip`, in order
RECURSIVE Ordinals(_, _, _)
Ordinals(i, n, skip) ==
    IF i >= n THEN <<>>
    ELSE (IF i \in skip THEN <<>> ELSE <<i>>) \o Ordinals(i + 1, n, skip)

\* nothing clicked, nothing called
NoClicks == [clicks |-> <<>>, calls |-> <<>>]

\* lines 386-401, from the k-th tab selector on, after `done`: the first
\* selector that matches any element is used
RECURSIVE TabClicks(_, _, _)
TabClicks(p, k, done) ==
    IF k > Len(tab_selectors) THEN done
    ELSE LET query == Call("tabs", "query_selector_all", k, 0, p.tabs[k] >= 0)
             n == Min(p.tabs[k], 3)
             ords == Ordinals(0, n, p.tab_fail)
         IN  IF p.tabs[k] <= 0
             THEN TabClicks(p, k + 1, [done EXCEPT !.calls = Append(@, query)])
             ELSE [done EXCEPT
                      !.clicks = [j \in 1..Len(ords) |->
                                     tab_selectors[k] \o ":nth(" \o Digit(ords[j]) \o ")"],
                      !.calls = Append(@, query) \o
                                [j \in 1..n |->
                                    Call("tabs", "click", k, j - 1,
                                         (j - 1) \notin p.tab_fail)]]


\* LoadMoreClicks with the handler of lines 426-427 around the whole loop: a
\* click or query that raises ends the script
RECURSIVE LoadMoreClicks_giveup(_, _, _, _)
LoadMoreClicks_giveup(p, k, i, done) ==
    IF k > Len(load_more_selectors) THEN done
    ELSE IF i >= 3 THEN LoadMoreClicks_giveup(p, k + 1, 0, done)
    ELSE LET met == IF i + 1 <= Len(p.more[k]) THEN p.more[k][i + 1] ELSE "none"
             query == Call("load_more", "query_selector", k, i, met # "raise")
             click == Call("load_more", "click", k, i, met = "ok")
         IN  CASE met = "ok" ->
                    LoadMoreClicks_giveup(p, k, i + 1,
                        [done EXCEPT
                            !.clicks = Append(@, load_more_selectors[k]
                                                    \o ":click(" \o Digit(i) \o ")"),
                            !.calls = @ \o <<query, click>>])
               [] met = "fail" -> [done EXCEPT !.calls = @ \o <<query, click>>]
               [] met = "raise" -> [done EXCEPT !.calls = Append(@, query)]
               [] OTHER ->
                    LoadMoreClicks_giveup(p, k + 1, 0,
                        [done EXCEPT !.calls = Append(@, query)])

\* lines 414-427, from attempt i of the k-th load-more selector on, after
\* `done`: every selector is tried, each at most 3 times
RECURSIVE LoadMoreClicks(_, _, _, _)
LoadMoreClicks(p, k, i, done) ==
    IF k > Len(load_more_selectors) THEN done
    ELSE IF i >= 3 THEN LoadMoreClicks(p, k + 1, 0, done)
    ELSE LET met == IF i + 1 <= Len(p.more[k]) THEN p.more[k][i + 1] ELSE "none"
             query == Call("load_more", "query_selector", k, i, met # "raise")
             click == Call("load_more", "click", k, i, met = "ok")
         IN  CASE met = "ok" ->
                    LoadMoreClicks(p, k, i + 1,
                        [done EXCEPT
                            !.clicks = Append(@, load_more_selectors[k]
                                                    \o ":click(" \o Digit(i) \o ")"),
                            !.calls = @ \o <<query, click>>])
               [] met = "fail" ->
                    LoadMoreClicks(p, k + 1, 0,
                        [done EXCEPT !.calls = @ \o <<query, click>>])
               [] OTHER ->
                    LoadMoreClicks(p, k + 1, 0,
                        [done EXCEPT !.calls = Append(@, query)])


\* _perform_clicks with the load-more loop before the tab loop
_perform_clicks_swapped(p, res) ==
    LET tab == TabClicks(p, 1, NoClicks)
        more == LoadMoreClicks(p, 1, 0, NoClicks)
    IN  [result |-> [res EXCEPT !.interactions.clicks = more.clicks \o tab.clicks],
         raised |-> NoException,
         calls |-> more.calls \o tab.calls]

_perform_clicks(p, res) ==
    LET clicked == LoadMoreClicks(p, 1, 0, TabClicks(p, 1, NoClicks))
    IN  [result |-> [res EXCEPT !.interactions.clicks = clicked.clicks],
         raised |-> NoException,
         calls |-> clicked.calls]


\* ScrollLoop without the break of lines 457-458
RECURSIVE ScrollLoop_continue(_, _, _)
ScrollLoop_continue(p, i, scrolls) ==
    IF i > max_scrolls THEN [scrolls |-> scrolls, errors |-> <<>>, calls |-> <<>>]
    ELSE IF p.scroll_fail = i
    THEN [scrolls |-> scrolls,
          errors |-> <<[message |-> "Scroll error: " \o PlaywrightError.message,
                        phase |-> "scroll"]>>,
          calls |-> <<Call("scroll", "evaluate", p.scroll_steps[i], i, FALSE)>>]
    ELSE [ScrollLoop_continue(p, i + 1, scrolls + 1) EXCEPT
             !.calls = <<Call("scroll", "evaluate", p.scroll_steps[i], i, TRUE)>> \o @]

\* round i of the scroll loop, with `scrolls` rounds completed so far
RECURSIVE ScrollLoop(_, _, _)
ScrollLoop(p, i, scrolls) ==
    IF i > max_scrolls THEN [scrolls |-> scrolls, errors |-> <<>>, calls |-> <<>>]
    ELSE LET round == Call("scroll", "evaluate", p.scroll_steps[i], i,
                           p.scroll_fail # i)
         IN  IF p.scroll_fail = i
             THEN [scrolls |-> scrolls,
                   errors |-> <<[message |-> "Scroll error: " \o PlaywrightError.message,
                                 phase |-> "scroll"]>>,
                   calls |-> <<round>>]
             ELSE IF p.heights[i + 1] = p.heights[i]
             THEN [scrolls |-> scrolls + 1, errors |-> <<>>, calls |-> <<round>>]
             ELSE LET rest == ScrollLoop(p, i + 1, scrolls + 1)
                  IN  [rest EXCEPT !.calls = <<round>> \o @]

\* _perform_scrolls without its handler: the exception leaves the script
_perform_scrolls_raise(p, res) ==
    LET r == ScrollLoop(p, 1, 0)
    IN  [result |-> IF r.errors = <<>>
                    THEN [res EXCEPT !.interactions.scrolls = r.scrolls]
                    ELSE res,
         raised |-> IF r.errors = <<>> THEN NoException ELSE PlaywrightError,
         calls |-> r.calls]

_perform_scrolls(p, res) ==
    LET r == ScrollLoop(p, 1, 0)
    IN  [result |-> [res EXCEPT !.errors = @ \o r.errors,
                                !.interactions.scrolls = r.scrolls],
         raised |-> NoException,
         calls |-> r.calls]

\* lines 485-493, from the k-th next selector on: the control the selector
\* loop leaves in next_link (the position of its selector, 0: None)
RECURSIVE NextLink(_, _, _)
NextLink(scan, k, next_link) ==
    IF k > Len(next_selectors) THEN next_link
    ELSE CASE scan[k] = "visible" -> k
           [] scan[k] = "visible_raises" -> NextLink(scan, k + 1, k)
           [] scan[k] = "query_raises" -> NextLink(scan, k + 1, next_link)
           [] OTHER -> NextLink(scan, k + 1, 0)

\* page.url at the start of iteration i of the pagination loop
RECURSIVE PageUrl(_, _, _)
PageUrl(p, base_url, i) ==
    IF i <= 1 THEN base_url
    ELSE LET before == PageUrl(p, base_url, i - 1)
             href == p.links[i - 1].href
         IN  IF Truthy(href) THEN urljoin(before, href) ELSE before


\* the pagination loop with the resolved URL appended only after the click
\* and the wait for the navigation went through
RECURSIVE PaginationLoop_after(_, _, _, _)
PaginationLoop_after(p, i, done, base_url) ==
    IF i > max_pages - 1 \/ i > Len(p.links) THEN done
    ELSE IF NextLink(p.links[i].scan, 1, 0) = 0 THEN done
    ELSE LET sel == NextLink(p.links[i].scan, 1, 0)
             attr == Call("pagination", "get_attribute", sel, i, ~p.links[i].attr_fail)
             click == Call("pagination", "click", sel, i, ~p.links[i].click_fail)
             href == p.links[i].href
             next_url == urljoin(PageUrl(p, base_url, i), href)
             visited == [done EXCEPT
                            !.pages = IF Truthy(href)
                                         /\ ~(\E j \in 1..Len(@) : @[j] = next_url)
                                      THEN Append(@, next_url)
                                      ELSE @,
                            !.calls = @ \o <<attr, click>>]
         IN  IF p.links[i].attr_fail
             THEN [done EXCEPT
                      !.errors = Append(@, [message |-> "Pagination error: "
                                                          \o PlaywrightError.message,
                                            phase |-> "pagination"]),
                      !.calls = Append(@, attr)]
             ELSE IF p.links[i].click_fail
             THEN [done EXCEPT !.calls = @ \o <<attr, click>>]
             ELSE PaginationLoop_after(p, i + 1, visited, base_url)

\* iteration i of the pagination loop, after `done` (visited_pages, the
\* error of the handler of lines 514-518, the calls made)
RECURSIVE PaginationLoop(_, _, _, _)
PaginationLoop(p, i, done, base_url) ==
    IF i > max_pages - 1 \/ i > Len(p.links) THEN done
    ELSE IF NextLink(p.links[i].scan, 1, 0) = 0 THEN done
    ELSE LET sel == NextLink(p.links[i].scan, 1, 0)
             attr == Call("pagination", "get_attribute", sel, i, ~p.links[i].attr_fail)
             click == Call("pagination", "click", sel, i, ~p.links[i].click_fail)
             href == p.links[i].href
             next_url == urljoin(PageUrl(p, base_url, i), href)
             visited == [done EXCEPT
                            !.pages = IF Truthy(href)
                                         /\ ~(\E j \in 1..Len(@) : @[j] = next_url)
                                      THEN Append(@, next_url)
                                      ELSE @,
                            !.calls = @ \o <<attr, click>>]
         IN  IF p.links[i].attr_fail
             THEN [done EXCEPT
                      !.errors = Append(@, [message |-> "Pagination error: "
                                                          \o PlaywrightError.message,
                                            phase |-> "pagination"]),
                      !.calls = Append(@, attr)]
             ELSE IF p.links[i].click_fail THEN visited
             ELSE PaginationLoop(p, i + 1, visited, base_url)

\* the locals of _follow_pagination before its loop
NoPagination(visited_pages) ==
    [pages |-> visited_pages, errors |-> <<>>, calls |-> <<>>]

\* _follow_pagination with visited_pages starting empty
_follow_pagination_empty(p, res, base_url) ==
    LET r == PaginationLoop(p, 1, NoPagination(<<>>), base_url)
    IN  [result |-> [res EXCEPT !.errors = @ \o r.errors,
                                !.interactions.pages = r.pages],
         raised |-> NoException,
         calls |-> r.calls]

_follow_pagination(p, res, base_url) ==
    LET r == PaginationLoop(p, 1, NoPagination(<<base_url>>), base_url)
    IN  [result |-> [res EXCEPT !.errors = @ \o r.errors,
                                !.interactions.pages = r.pages],
         raised |-> NoException,
         calls |-> r.calls]

-----------------------------------------------------------------------------
(* _js_scrape *)

\* except PlaywrightTimeout / except Exception of the inner try
JsInnerExcept(res, e) ==
    IF e.type = "PlaywrightTimeout"
    THEN [res EXCEPT !.errors =
              Append(@, [message |-> "Timeout: " \o e.message, phase |-> "render"])]
    ELSE [res EXCEPT !.errors =
              Append(@, [message |-> e.message, phase |-> "js_scrape"])]

\* except Exception of the outer try
JsOuterExcept(res, e) ==
    [res EXCEPT !.errors = Append(@, [message |-> e.message, phase |-> "playwright"])]

\* the early return of _js_scrape when the engine is missing
JsUnavailable(res) ==
    [res EXCEPT !.errors = Append(@,
        [message |-> "Playwright not installed. Run: pip install playwright && playwright install chromium",
         phase |-> "playwright_check"])]

\* what reading and extracting the final markup can do
ExtractOutcomes(u) ==
         {[kind |-> "ok", head |-> h, sections |-> s] :
              h \in JsHeads, s \in JsSectionLists(u)}
    \cup {[kind |-> "content_error", exc |-> e] : e \in RenderExceptions}
    \cup {[kind |-> "extract_error", head |-> h,
           exc |-> [type |-> "AttributeError",
                    message |-> "'NoneType' object has no attribute 'split'"]] :
              h \in JsHeads}

JsExtracted(res, o, u) ==
    LET withMeta == [res EXCEPT !.meta =
                        SetItem(_extract_meta(o.head, u), "strategy", "js")]
    IN  CASE o.kind = "ok" -> [withMeta EXCEPT !.sections = o.sections]
          [] o.kind = "extract_error" -> JsInnerExcept(withMeta, o.exc)
          [] OTHER -> JsInnerExcept(res, o.exc)


-----------------------------------------------------------------------------
(* scrape *)

\* the result dict built at the top of scrape
ScrapeResult(u) ==
    [url |-> u,
     scrapedAt |-> "now",
     meta |-> [title |-> "", description |-> "", language |-> "en",
               canonical |-> None, strategy |-> "static"],
     sections |-> <<>>,
     interactions |-> [clicks |-> <<>>, scrolls |-> 0, pages |-> <<u>>],
     errors |-> <<>>]

\* ScrapeExcept without the handler: the exception leaves scrape
ScrapeExcept_reraise(res, e) == [result |-> res, raised |-> e]

\* except Exception of scrape: the exception is recorded, nothing is raised
ScrapeExcept(res, e) ==
    [result |-> [res EXCEPT !.errors =
                    Append(@, [message |-> e.message, phase |-> "scrape"])],
     raised |-> NoException]

FallbackDecisionError ==
    [message |-> "Static scraping insufficient, using JS rendering",
     phase |-> "fallback_decision"]

\* the entry of line 91 with the phase of the render pass's outer handler
PlaywrightCheckError_phase ==
    [message |-> "JS rendering recommended but Playwright not installed. Run: pip install playwright && playwright install chromium",
     phase |-> "playwright"]

PlaywrightCheckError ==
    [message |-> "JS rendering recommended but Playwright not installed. Run: pip install playwright && playwright install chromium",
     phase |-> "playwright_check"]

\* the merge of the render result js into the fetch result res
\* MergeSections taking the render sections also on equal counts
MergeSections_ge(res, js) ==
    IF Get(js, "sections", <<>>) # <<>>
       /\ Len(js.sections) >= Len(Get(res, "sections", <<>>))
    THEN [res EXCEPT !.sections = js.sections]
    ELSE res

MergeSections(res, js) ==
    IF Get(js, "sections", <<>>) # <<>>
       /\ Len(js.sections) > Len(Get(res, "sections", <<>>))
    THEN [res EXCEPT !.sections = js.sections]
    ELSE res

\* MergeMeta taking over the render metadata whatever its title is
MergeMeta_always(res, js) ==
    [res EXCEPT !.meta = SetItem(Update(@, js.meta), "strategy", "js")]

MergeMeta(res, js) ==
    IF Truthy(Get(Get(js, "meta", <<>>), "title", None))
    THEN [res EXCEPT !.meta = SetItem(Update(@, js.meta), "strategy", "js")]
    ELSE res

\* MergeInteractions keeping the interactions of the fetch result
MergeInteractions_keep(res, js) == res

MergeInteractions(res, js) ==
    IF "interactions" \in DOMAIN js
    THEN [res EXCEPT !.interactions = js.interactions]
    ELSE res

\* MergeErrors replacing the errors instead of extending them
MergeErrors_replace(res, js) ==
    IF Get(js, "errors", <<>>) # <<>>
    THEN [res EXCEPT !.errors = js.errors]
    ELSE res

\* MergeErrors putting the render errors in front of the earlier ones
MergeErrors_prepend(res, js) ==
    IF Get(js, "errors", <<>>) # <<>>
    THEN [res EXCEPT !.errors = js.errors \o @]
    ELSE res

MergeErrors(res, js) ==
    IF Get(js, "errors", <<>>) # <<>>
    THEN [res EXCEPT !.errors = @ \o js.errors]
    ELSE res

Merge(res, js) ==
    MergeErrors(MergeInteractions(MergeMeta(MergeSections(res, js), js), js), js)

-----------------------------------------------------------------------------
(* Markup trees as the parser (selectolax HTMLParser) presents them: an     *)
(* element has a tag, attributes in source order and child nodes; a text    *)
(* node has the tag "-text" and its text.  Two nodes are equal when their   *)
(* serializations are equal (Node.__eq__ compares .html).                   *)

El(tag, attrs, kids) == [tag |-> tag, attrs |-> attrs, kids |-> kids, text |-> ""]
Tx(t) == [tag |-> "-text", attrs |-> <<>>, kids |-> <<>>, text |-> t]

\* node.attributes.get(name, default)
Attr(n, name, default) ==
    LET hits == {i \in 1..Len(n.attrs) : n.attrs[i][1] = name}
    IN  IF hits = {} THEN default
        ELSE n.attrs[CHOOSE i \in hits : \A j \in hits : i <= j][2]

\* str.strip(): indices of the first and the last non-whitespace character
IsSpace(s, i) == SubSeq(s, i, i) \in {" ", "\n", "\t"}

\* index of the first non-whitespace character of s from i on, or Len(s) + 1
FirstNonSpace(s, i) ==
    LET hits == {j \in i..Len(s) : ~IsSpace(s, j)}
    IN  IF hits = {} THEN Len(s) + 1
        ELSE CHOOSE j \in hits : \A k \in hits : j <= k

\* index of the last non-whitespace character of s up to i, or 0
LastNonSpace(s, i) ==
    LET hits == {j \in 1..i : ~IsSpace(s, j)}
    IN  IF hits = {} THEN 0
        ELSE CHOOSE j \in hits : \A k \in hits : j >= k

Strip(s) ==
    LET a == FirstNonSpace(s, 1)
        b == LastNonSpace(s, Len(s))
    IN  IF a > b THEN "" ELSE SubSeq(s, a, b)

\* index of the first whitespace character of s from i on, or Len(s) + 1
FirstSpace(s, i) ==
    LET hits == {j \in i..Len(s) : IsSpace(s, j)}
    IN  IF hits = {} THEN Len(s) + 1
        ELSE CHOOSE j \in hits : \A k \in hits : j <= k

\* s[i-1:].split()
RECURSIVE WordsFrom(_, _)
WordsFrom(s, i) ==
    LET a == FirstNonSpace(s, i)
        b == FirstSpace(s, a)
    IN  IF a > Len(s) THEN <<>>
        ELSE <<SubSeq(s, a, b - 1)>> \o WordsFrom(s, b)

\* str.split()
Words(s) == WordsFrom(s, 1)

\* sep.join(parts[i-1:])
RECURSIVE JoinFrom(_, _, _)
JoinFrom(parts, sep, i) ==
    IF i > Len(parts) THEN ""
    ELSE IF i = Len(parts) THEN parts[i]
    ELSE parts[i] \o sep \o JoinFrom(parts, sep, i + 1)

\* sep.join(parts)
Join(parts, sep) == JoinFrom(parts, sep, 1)

\* str(n) for 0 <= n <= 99
Str(n) == IF n < 10 THEN Digit(n) ELSE Digit(n \div 10) \o Digit(n % 10)

\* the descendants of n from its i-th child on, in document order
RECURSIVE Descendants(_, _)
Descendants(n, i) ==
    IF i > Len(n.kids) THEN <<>>
    ELSE <<n.kids[i]>> \o Descendants(n.kids[i], 1) \o Descendants(n, i + 1)

\* node.css(selector) for a selector that is a list of tag names; the
\* callers never select the tag of the node itself
Css(n, tags) == SelectSeq(Descendants(n, 1), LAMBDA k : k.tag \in tags)

\* node.text(strip=True): the stripped texts of all text nodes below n,
\* joined without separator
RECURSIVE TextFrom(_, _)
TextFrom(n, i) ==
    IF i > Len(n.kids) THEN ""
    ELSE (IF n.kids[i].tag = "-text" THEN Strip(n.kids[i].text)
          ELSE TextFrom(n.kids[i], 1))
         \o TextFrom(n, i + 1)

Text(n) == TextFrom(n, 1)

\* elements serialized without an end tag
VoidTags == {"img", "br", "hr", "meta", "link", "input"}

RECURSIVE AttrsHtml(_, _)
AttrsHtml(n, i) ==
    IF i > Len(n.attrs) THEN ""
    ELSE " " \o n.attrs[i][1] \o "=\"" \o n.attrs[i][2] \o "\""
         \o AttrsHtml(n, i + 1)

OpenTag(n) == "<" \o n.tag \o AttrsHtml(n, 1) \o ">"
CloseTag(n) == IF n.tag \in VoidTags THEN "" ELSE "</" \o n.tag \o ">"

\* the serialization of the children of n from the i-th on
RECURSIVE HtmlFrom(_, _)
HtmlFrom(n, i) ==
    IF i > Len(n.kids) THEN ""
    ELSE (IF n.kids[i].tag = "-text" THEN n.kids[i].text
          ELSE OpenTag(n.kids[i]) \o HtmlFrom(n.kids[i], 1) \o CloseTag(n.kids[i]))
         \o HtmlFrom(n, i + 1)

\* node.html
Html(n) ==
    IF n.tag = "-text" THEN n.text
    ELSE OpenTag(n) \o HtmlFrom(n, 1) \o CloseTag(n)

-----------------------------------------------------------------------------
(* _process_section, _detect_section_type, _create_label *)

\* [e.text(strip=True) for e in seq]
Texts(seq) == [i \in 1..Len(seq) |-> Text(seq[i])]

\* lines 668-673: heading texts, level by level
RECURSIVE HeadingsFrom(_, _)
HeadingsFrom(el, level) ==
    IF level > 6 THEN <<>>
    ELSE SelectSeq(Texts(Css(el, {"h" \o Digit(level)})), LAMBDA t : t # "")
         \o HeadingsFrom(el, level + 1)

Headings(el) == HeadingsFrom(el, 1)

\* lines 676-689: paragraphs of more than 10 characters; with fewer than 2
\* of them, blocks of more than 30 characters until there are 5 parts
TextParts(el) ==
    LET paragraphs == SelectSeq(Texts(Css(el, {"p"})), LAMBDA t : Len(t) > 10)
        divs       == SelectSeq(Texts(Css(el, {"div"})), LAMBDA t : Len(t) > 30)
    IN  IF Len(paragraphs) < 2
        THEN paragraphs \o Prefix(divs, 5 - Len(paragraphs))
        ELSE paragraphs

\* lines 694-704 without the break at 20 links
Links_nocap(el, u) ==
    LET anchors == SelectSeq(Css(el, {"a"}),
                       LAMBDA a : Attr(a, "href", "") # "" /\ Text(a) # "")
    IN  [i \in 1..Len(anchors) |->
            [text |-> Prefix(Text(anchors[i]), 100),
             href |-> urljoin(u, Attr(anchors[i], "href", ""))]]

\* lines 694-704
Links(el, u) ==
    LET anchors == SelectSeq(Css(el, {"a"}),
                       LAMBDA a : Attr(a, "href", "") # "" /\ Text(a) # "")
        kept    == Prefix(anchors, 20)
    IN  [i \in 1..Len(kept) |->
            [text |-> Prefix(Text(kept[i]), 100),
             href |-> urljoin(u, Attr(kept[i], "href", ""))]]

\* src or data-src of an image
ImgSrc(img) ==
    IF Attr(img, "src", "") # "" THEN Attr(img, "src", "")
    ELSE Attr(img, "data-src", "")

\* lines 707-717
Images(el, u) ==
    LET imgs == Prefix(SelectSeq(Css(el, {"img"}), LAMBDA g : ImgSrc(g) # ""), 10)
    IN  [i \in 1..Len(imgs) |->
            [src |-> urljoin(u, ImgSrc(imgs[i])), alt |-> Attr(imgs[i], "alt", "")]]

\* lines 721-725: the items of one list
ListItems(ul) ==
    LET items == SelectSeq(Texts(Css(ul, {"li"})), LAMBDA t : t # "")
    IN  [i \in 1..Len(items) |-> Prefix(items[i], 200)]

\* lines 720-729
Lists(el) ==
    LET uls   == Css(el, {"ul", "ol"})
        items == [i \in 1..Len(uls) |-> Prefix(ListItems(uls[i]), 20)]
    IN  Prefix(SelectSeq(items, LAMBDA l : l # <<>>), 5)

\* lines 735-737: the cells of one row
RowData(row) ==
    LET cells == Css(row, {"td", "th"})
    IN  [i \in 1..Len(cells) |-> Prefix(Text(cells[i]), 100)]

\* lines 733-741: the rows of one table
TableData(table) ==
    LET rows == Css(table, {"tr"})
        data == [i \in 1..Len(rows) |-> RowData(rows[i])]
    IN  Prefix(SelectSeq(data, LAMBDA r : r # <<>>), 20)

\* lines 732-745
Tables(el) ==
    LET tables == Css(el, {"table"})
        data   == [i \in 1..Len(tables) |-> TableData(tables[i])]
    IN  Prefix(SelectSeq(data, LAMBDA t : t # <<>>), 3)

\* any(word in combined for word in words)
AnyIn(words, combined) == \E w \in words : Contains(combined, w)

\* the same, with the footer group tested before the nav group
_detect_section_type_footer_first(el, content) ==
    LET classes    == Lower(Join(Words(Attr(el, "class", "")), " "))
        element_id == Lower(Attr(el, "id", ""))
        combined   == classes \o " " \o element_id
    IN  IF AnyIn({"hero", "banner", "jumbotron", "masthead"}, combined) THEN "hero"
        ELSE IF AnyIn({"footer", "foot"}, combined) THEN "footer"
        ELSE IF AnyIn({"nav", "menu", "navigation", "navbar"}, combined) THEN "nav"
        ELSE IF AnyIn({"faq", "question", "accordion"}, combined) THEN "faq"
        ELSE IF AnyIn({"pricing", "price", "plan", "tier"}, combined) THEN "pricing"
        ELSE IF AnyIn({"grid", "gallery", "cards"}, combined) THEN "grid"
        ELSE IF Len(content.lists) > 0 THEN "list"
        ELSE "section"

_detect_section_type(el, content) ==
    LET classes    == Lower(Join(Words(Attr(el, "class", "")), " "))
        element_id == Lower(Attr(el, "id", ""))
        combined   == classes \o " " \o element_id
    IN  IF AnyIn({"hero", "banner", "jumbotron", "masthead"}, combined) THEN "hero"
        ELSE IF AnyIn({"nav", "menu", "navigation", "navbar"}, combined) THEN "nav"
        ELSE IF AnyIn({"footer", "foot"}, combined) THEN "footer"
        ELSE IF AnyIn({"faq", "question", "accordion"}, combined) THEN "faq"
        ELSE IF AnyIn({"pricing", "price", "plan", "tier"}, combined) THEN "pricing"
        ELSE IF AnyIn({"grid", "gallery", "cards"}, combined) THEN "grid"
        ELSE IF Len(content.lists) > 0 THEN "list"
        ELSE "section"

type_labels ==
    [hero |-> "Hero", nav |-> "Navigation", footer |-> "Footer", faq |-> "FAQ",
     pricing |-> "Pricing", grid |-> "Grid", list |-> "List",
     section |-> "Section", article |-> "Article"]

_create_label(content, section_type) ==
    LET base_label == Get(type_labels, section_type, "Section")
        context    == Join(Prefix(Words(content.text), 10), " ")
    IN  IF content.headings # <<>> THEN Prefix(content.headings[1], 80)
        ELSE IF content.text # "" /\ Len(context) > 15
        THEN base_label \o ": " \o context
        ELSE base_label

\* lines 762-765: the markup kept in rawHtml
RawHtml(el) ==
    LET raw_html  == Html(el)
        truncated == Len(raw_html) > 1000
    IN  [rawHtml |-> IF truncated THEN Prefix(raw_html, 1000) \o "..." ELSE raw_html,
         truncated |-> truncated]

_process_section(el, section_type, i, u) ==
    LET content ==
            [headings |-> Headings(el),
             text     |-> Join(Prefix(TextParts(el), 15), " "),
             links    |-> Links(el, u),
             images   |-> Images(el, u),
             lists    |-> Lists(el),
             tables   |-> Tables(el)]
        detected_type ==
            IF section_type = "header" THEN "hero"
            ELSE IF section_type = "nav" THEN "nav"
            ELSE IF section_type = "footer" THEN "footer"
            ELSE IF section_type = "article" THEN "section"
            ELSE _detect_section_type(el, content)
        raw == RawHtml(el)
    IN  [id        |-> detected_type \o "-" \o Str(i),
         type      |-> detected_type,
         label     |-> _create_label(content, detected_type),
         sourceUrl |-> u,
         content   |-> content,
         rawHtml   |-> raw.rawHtml,
         truncated |-> raw.truncated]

\* line 622 / 806: a section is kept when it has text or headings
Qualifies(s) == s.content.text # "" \/ s.content.headings # <<>>

-----------------------------------------------------------------------------
(* _extract_sections, _extract_by_headings, _deduplicate_sections *)

\* parser.css_first(tag) as a landmark entry, nothing when there is none
FirstLandmark(d, tag) ==
    LET found == Css(d, {tag})
    IN  IF found = <<>> THEN <<>> ELSE << <<tag, found[1]>> >>

\* lines 609-611: the articles that are not landmarks yet
RECURSIVE AddArticles(_, _, _)
AddArticles(lm, articles, i) ==
    IF i > Len(articles) THEN lm
    ELSE IF \E j \in 1..Len(lm) : lm[j][2] = articles[i]
    THEN AddArticles(lm, articles, i + 1)
    ELSE AddArticles(Append(lm, <<"article", articles[i]>>), articles, i + 1)

\* the same, with the articles added whatever the number of landmarks
Landmarks_always(d) ==
    LET section_elems == Css(d, {"section"})
        first == FirstLandmark(d, "main") \o FirstLandmark(d, "article")
                   \o FirstLandmark(d, "header") \o FirstLandmark(d, "nav")
                   \o FirstLandmark(d, "footer")
                   \o [i \in 1..Len(section_elems) |-> <<"section", section_elems[i]>>]
        more  == AddArticles(first, Css(d, {"article"}), 1)
    IN  IF more = <<>>
        THEN FirstLandmark(d, "body")
        ELSE more

\* lines 580-617: the landmarks of a document, in discovery order
Landmarks(d) ==
    LET section_elems == Css(d, {"section"})
        first == FirstLandmark(d, "main") \o FirstLandmark(d, "article")
                   \o FirstLandmark(d, "header") \o FirstLandmark(d, "nav")
                   \o FirstLandmark(d, "footer")
                   \o [i \in 1..Len(section_elems) |-> <<"section", section_elems[i]>>]
        more  == IF Len(first) < 3
                 THEN AddArticles(first, Css(d, {"article"}), 1)
                 ELSE first
    IN  IF more = <<>>
        THEN FirstLandmark(d, "body")
        ELSE more

HeadingTags == {"h1", "h2", "h3"}

\* body.css("h1, h2, h3") below n from its i-th child on: each heading as
\* its parent and its position among the parent's children
RECURSIVE HeadingNodes(_, _)
HeadingNodes(n, i) ==
    IF i > Len(n.kids) THEN <<>>
    ELSE (IF n.kids[i].tag \in HeadingTags
          THEN <<[parent |-> n, pos |-> i]>> ELSE <<>>)
         \o HeadingNodes(n.kids[i], 1) \o HeadingNodes(n, i + 1)

\* lines 784-786: headings[:15]
HeadingList(d) ==
    LET body == Css(d, {"body"})
    IN  IF body = <<>> THEN <<>> ELSE Prefix(HeadingNodes(body[1], 1), 15)

\* lines 788-794: the siblings after a heading up to the next h1, h2 or h3,
\* 16 at most
RECURSIVE ContentElements(_, _, _)
ContentElements(parent, j, count) ==
    IF j > Len(parent.kids) \/ count > 15 THEN <<>>
    ELSE IF parent.kids[j].tag \in HeadingTags THEN <<>>
    ELSE <<parent.kids[j]>> \o ContentElements(parent, j + 1, count + 1)

\* lines 796-802: the section element parsed from the heading's markup
\* followed by that of its content elements
VirtualSection(h) ==
    El("section", <<>>,
       <<h.parent.kids[h.pos]>> \o ContentElements(h.parent, h.pos + 1, 0))

\* line 646
Fingerprint(s) ==
    Strip(Lower(Prefix(Get(Get(s, "content", <<>>), "text", ""), 100)))

\* lines 643-653
RECURSIVE DedupFrom(_, _, _)
DedupFrom(secs, i, seen_texts) ==
    IF i > Len(secs) THEN <<>>
    ELSE IF Fingerprint(secs[i]) # "" /\ Fingerprint(secs[i]) \notin seen_texts
    THEN <<secs[i]>> \o DedupFrom(secs, i + 1, seen_texts \cup {Fingerprint(secs[i])})
    ELSE IF Fingerprint(secs[i]) = ""
            /\ Get(Get(secs[i], "content", <<>>), "headings", <<>>) # <<>>
    THEN <<secs[i]>> \o DedupFrom(secs, i + 1, seen_texts)
    ELSE DedupFrom(secs, i + 1, seen_texts)

\* _deduplicate_sections whose loop starts at the second section
_deduplicate_sections_skipfirst(secs) ==
    IF Len(secs) <= 1 THEN secs ELSE DedupFrom(secs, 2, {})

\* _deduplicate_sections that keeps every section
_deduplicate_sections_keepall(secs) == secs

_deduplicate_sections(secs) ==
    IF Len(secs) <= 1 THEN secs ELSE DedupFrom(secs, 1, {})

\* line 626 with the threshold off by one
NeedsHeadings_le(secs) == Len(secs) <= 3

\* line 626: very few sections
NeedsHeadings(secs) == Len(secs) < 3

-----------------------------------------------------------------------------
(* The markup trees and section sequences the extractor is run on *)

\* largest number of section elements in a document
MaxSectionElems == 2

\* largest length of a section sequence handed to _deduplicate_sections
MaxDedupLen == 3

P(t) == El("p", <<>>, <<Tx(t)>>)
H(tag, t) == El(tag, <<>>, <<Tx(t)>>)
A(href, t) == El("a", << <<"href", href>> >>, <<Tx(t)>>)
Img(src, alt) == El("img", << <<"src", src>>, <<"alt", alt>> >>, <<>>)
Ul(items) ==
    El("ul", <<>>, [i \in 1..Len(items) |-> El("li", <<>>, <<Tx(items[i])>>)])
Table(cells) ==
    El("table", <<>>,
       <<El("tr", <<>>, [i \in 1..Len(cells) |-> El("td", <<>>, <<Tx(cells[i])>>)])>>)

\* n copies of a node
Rep(n, node) == [i \in 1..n |-> node]

\* a text of n characters
RECURSIVE Pad(_)
Pad(n) ==
    IF n = 0 THEN ""
    ELSE IF n % 2 = 1 THEN "x" \o Pad(n - 1)
    ELSE Pad(n \div 2) \o Pad(n \div 2)

\* the document with the given children of body
Document(kids) ==
    El("html", << <<"lang", "en">> >>,
       << El("head", <<>>, <<El("title", <<>>, <<Tx("Example")>>)>>),
          El("body", <<>>, kids) >>)

\* paragraphs of more than 10 characters
ParagraphTexts ==
    { "First paragraph.",
      "  Second paragraph of the page, with some more words in it.  ",
      "Third paragraph: Lorem ipsum dolor sit amet, consectetuer adipiscing elit. Aenean commodo ligula eget dolor. Aenean massa." }

\* a main element with one h1 "Title" followed by three paragraphs
TitleMain(p1, p2, p3, gap) ==
    El("main", <<>>,
       IF gap = "" THEN <<H("h1", "Title"), P(p1), P(p2), P(p3)>>
       ELSE <<Tx(gap), H("h1", "Title"), Tx(gap), P(p1), Tx(gap), P(p2),
              Tx(gap), P(p3), Tx(gap)>>)

\* pages whose only landmark is such a main element
TitlePages ==
    { Document(<<TitleMain(p1, p2, p3, gap)>>) :
          p1 \in ParagraphTexts, p2 \in ParagraphTexts, p3 \in ParagraphTexts,
          gap \in {"", "\n  "} }

\* a main element with an h1 part and an h2 part
MainTwoParts ==
    El("main", <<>>,
       <<H("h1", "Alpha"), P("Alpha paragraph text."),
         H("h2", "Beta"), P("Beta paragraph text.")>>)

\* main elements: none, two heading parts, class and id with keywords and a
\* list, one paragraph with blocks, nothing to extract, the title page
MainOptions ==
    { <<>>,
      <<MainTwoParts>>,
      <<El("main", << <<"class", "  Pricing   Table ">>, <<"id", "Plans">> >>,
           <<H("h2", "Plans"), Ul(<<"Basic", "Pro">>),
             P("Choose the plan that fits.")>>)>>,
      <<El("main", <<>>,
           <<P("One paragraph only."),
             El("div", <<>>,
                <<Tx("A block of text that is longer than thirty characters.")>>),
             El("div", <<>>, <<Tx("short block")>>)>>)>>,
      <<El("main", <<>>, <<El("div", <<>>, <<Tx("  ")>>)>>)>>,
      <<TitleMain("First paragraph.", "First paragraph.", "First paragraph.", "")>> }

\* header, nav and footer around the content
ChromeOptions ==
    LET header == El("header", <<>>,
                     <<H("h1", "Example Site"), P("Welcome to the example site.")>>)
        nav    == El("nav", <<>>,
                     <<A("https://example.com/", "Home"), A("?page=2", "More")>>)
        footer == El("footer", <<>>, <<P("Copyright 2024 Example Inc.")>>)
    IN  { [top |-> <<>>, bottom |-> <<>>],
          [top |-> <<header>>, bottom |-> <<>>],
          [top |-> <<header, nav>>, bottom |-> <<footer>>] }

\* section elements: the second repeats the paragraphs of the first in
\* another case, the third has a short paragraph and headings out of level
\* order
SectionElems ==
    { El("section", <<>>,
         <<H("h2", "Features"), P("Fast and reliable scraping."),
           P("Works with static pages.")>>),
      El("section", << <<"id", "more">> >>,
         <<H("h3", "Features again"), P("FAST and reliable scraping."),
           P("Works with static pages.")>>),
      El("section", << <<"class", "faq-block">> >>,
         <<H("h3", "Questions"), H("h2", "Answers"), P("short")>>) }

\* article elements: none, the same article twice, two different articles
ArticleOptions ==
    LET news  == El("article", <<>>,
                    <<H("h2", "News"), P("Something new happened.")>>)
        other == El("article", <<>>, <<P("Another article with its own text.")>>)
    IN  { <<>>, <<news, news>>, <<news, other>> }

\* documents that differ in their landmarks
LayoutPages ==
    { Document(c.top \o m \o s \o a \o c.bottom) :
          c \in ChromeOptions, m \in MainOptions,
          s \in SeqsUpTo(SectionElems, MaxSectionElems), a \in ArticleOptions }

\* a main element with that many links, images, lists and tables
MainBig(c) ==
    El("main", <<>>,
       <<H("h1", "Catalogue")>>
          \o Rep(c[1], A("?item=1", "Item link"))
          \o Rep(c[2], Img("https://example.com/i.png", "pic"))
          \o Rep(c[3], Ul(<<"one", "two">>))
          \o Rep(c[4], Table(<<"a", "b">>)))

\* pages with numbers of links, images, lists and tables around the caps,
\* and pages whose main element has markup of 999, 1000 and 1001 characters
CapPages ==
    {Document(<<MainBig(c)>>) :
        c \in { <<21, 11, 6, 4>>, <<20, 10, 5, 3>>, <<19, 9, 4, 2>>,
                <<25, 0, 0, 0>>, <<0, 12, 0, 0>>, <<0, 0, 7, 0>>, <<0, 0, 0, 5>> }}
       \cup {Document(<<El("main", <<>>, <<P(Pad(n))>>)>>) : n \in {979, 980, 981}}

\* class and id attributes with keywords of one or several groups, in
\* several cases and spacings, and without any keyword
ClassOptions ==
    { "", "content", "Hero-Banner", "Main-Menu footer", "  FAQ   pricing ",
      "price-grid", "cards gallery hero", "Footnote", "tier accordion" }

IdOptions == { "", "top", "NavBar", "Questions" }

\* children of a landmark: with a list, with a list without items, without
KidsOptions ==
    { <<H("h2", "Plans"), P("Choose the plan that fits."), Ul(<<"Basic", "Pro">>)>>,
      <<H("h2", "Plans"), P("Choose the plan that fits."), Ul(<<>>)>>,
      <<P("Choose the plan that fits.")>> }

\* pages with one landmark of each kind, attributes and children
TypePages ==
    { Document(<<El(tag,
                    (IF c = "" THEN <<>> ELSE << <<"class", c>> >>)
                       \o (IF i = "" THEN <<>> ELSE << <<"id", i>> >>),
                    kids)>>) :
          tag \in {"main", "section", "header", "nav", "footer", "article"},
          c \in ClassOptions, i \in IdOptions, kids \in KidsOptions }

Docs == TitlePages \cup LayoutPages \cup CapPages

\* urls of the documents
SourceUrl == "https://example.com/blog"

\* sections as _deduplicate_sections reads them
SectionSample(id, t, headings) ==
    [id |-> id, content |-> [text |-> t, headings |-> headings]]

SectionSamples ==
    { SectionSample("section-0", "Alpha beta gamma", <<"Alpha">>),
      SectionSample("section-1", "  ALPHA beta gamma ", <<>>),
      SectionSample("hero-2", Text100 \o " and a first ending", <<>>),
      SectionSample("list-3", Text100 \o " and a second ending", <<"Lorem">>),
      SectionSample("nav-4", "", <<"Only a heading">>),
      SectionSample("footer-5", "  ", <<>>),
      [id |-> "grid-6"] }

-----------------------------------------------------------------------------
(* The content extractor as a state machine: _extract_sections with its     *)
(* two loops, run on one document                                           *)

NoDocument == Document(<<>>)

\* there is no other invocation
NoInvocation == [pc |-> "none"]

\* the locals of _extract_sections and its callees before anything ran
LocalsInitial ==
    /\ landmarks = <<>>
    /\ idx = 0
    /\ hidx = 0
    /\ heading_sections = <<>>
    /\ element = Tx("")
    /\ section = [id |-> None]
    /\ dedup_in = <<>>
    /\ dedup_calls = 0

\* the extractor is not running
ExtractorIdle ==
    /\ doc = NoDocument
    /\ epc = "idle"
    /\ esections = <<>>
    /\ LocalsInitial

\* scrape is inside the fetch pass, which is about to extract (line 201)
InFetchPass ==
    /\ url = SourceUrl
    /\ PLAYWRIGHT_AVAILABLE = FALSE
    /\ pc = "static_get"
    /\ result = ScrapeResult(url)
    /\ domain = "example.com"
    /\ force_js = FALSE
    /\ needs_js = FALSE
    /\ static_result = PassResult(url, "static")
    /\ js_result = PassResult(url, "js")
    /\ jpc = "idle"
    /\ pending = NoException
    /\ page = PlainPage
    /\ browser = "none"
    /\ raised = NoException
    /\ fetch_calls = 1
    /\ client = [state |-> "closed", gets |-> 1, answer |-> "ok", status |-> None]
    /\ render_calls = 0
    /\ trace = <<"fetch">>
    /\ suspended = NoInvocation

-----------------------------------------------------------------------------
(* The state machine *)

\* scrape is called with one of urls: lines 31-50
ScrapeCalledWith(urls) ==
    /\ url \in urls
    /\ PLAYWRIGHT_AVAILABLE \in BOOLEAN
    /\ pc = "start"
    /\ result = ScrapeResult(url)
    /\ domain = ""
    /\ force_js = FALSE
    /\ needs_js = FALSE
    /\ static_result = PassResult(url, "static")
    /\ js_result = PassResult(url, "js")
    /\ jpc = "idle"
    /\ pending = NoException
    /\ page = PlainPage
    /\ browser = "none"
    /\ raised = NoException
    /\ fetch_calls = 0
    /\ client = NoClient
    /\ render_calls = 0
    /\ trace = <<>>
    /\ ExtractorIdle

ScrapeInit == ScrapeCalledWith(Urls)

Init == ScrapeInit /\ suspended = NoInvocation

\* scrape, lines 54-59 and 62-63: classify the host and pick the first pass
ScrapeStart ==
    /\ UNCHANGED <<extractVars, suspended>>
    /\ pc = "start"
    /\ \E parsed \in {urlparse(url)} :
       \E netloc \in {Lower(parsed.netloc)} :
       \E force \in {_should_force_js(netloc)} :
           IF ~parsed.ok
           THEN LET h == ScrapeExcept(result, parsed.exc)
                IN  /\ result' = h.result
                    /\ raised' = h.raised
                    /\ pc' = "done"
                    /\ UNCHANGED <<domain, force_js>>
           ELSE /\ domain' = netloc
                /\ force_js' = force
                /\ raised' = raised
                /\ IF force /\ PLAYWRIGHT_AVAILABLE
                   THEN /\ result' = [result EXCEPT !.meta.strategy = "js"]
                        /\ pc' = "js_call"
                   ELSE /\ result' = result
                        /\ pc' = "static_call"
    /\ UNCHANGED <<url, PLAYWRIGHT_AVAILABLE, needs_js, static_result,
                   js_result, jpc, pending, page, browser, fetch_calls, client,
                   render_calls, trace>>

\* scrape, line 64, and _static_scrape, lines 153-190: the fetch pass is
\* entered, opens its client and awaits the answer to its GET
StaticOpen ==
    /\ UNCHANGED <<extractVars, suspended>>
    /\ pc = "static_call"
    /\ fetch_calls' = fetch_calls + 1
    /\ client' = [client EXCEPT !.state = "open", !.gets = @ + 1]
    /\ trace' = Append(trace, "fetch")
    /\ pc' = "static_get"
    /\ UNCHANGED <<url, PLAYWRIGHT_AVAILABLE, domain, result, force_js, needs_js,
                   static_result, js_result, jpc, pending, page, browser, raised,
                   render_calls>>

\* _static_scrape, lines 190-220: the GET is answered or fails, the client
\* is closed by its `async with`, the markup is extracted, the pass returns
StaticScrape ==
    /\ UNCHANGED <<extractVars, suspended>>
    /\ pc = "static_get"
    /\ \E o \in FetchOutcomes(url) :
          /\ static_result' = _static_scrape(url, o)
          /\ client' = [client EXCEPT !.state = "closed", !.answer = o.kind,
                                      !.status = IF o.kind = "status" THEN o.code
                                                 ELSE None]
    /\ pc' = "static_ret"
    /\ UNCHANGED <<url, PLAYWRIGHT_AVAILABLE, domain, result, force_js, needs_js,
                   js_result, jpc, pending, page, browser, raised, fetch_calls,
                   render_calls, trace>>

\* the same, with a failed fetch tried a second time when no render follows
Decide_retry ==
    /\ UNCHANGED <<extractVars, suspended>>
    /\ pc = "static_ret"
    /\ LET updated == Update(result, static_result)
           needs   == _needs_js_rendering(updated)
       IN  /\ needs_js' = needs
           /\ IF needs /\ PLAYWRIGHT_AVAILABLE
              THEN /\ result' = [updated EXCEPT
                                    !.meta = SetItem(@, "strategy", "js"),
                                    !.errors = Append(@, FallbackDecisionError)]
                   /\ trace' = Append(trace, "fallback_decision")
                   /\ pc' = "js_call"
              ELSE IF needs /\ ~PLAYWRIGHT_AVAILABLE
              THEN /\ result' = [updated EXCEPT
                                    !.errors = Append(@, PlaywrightCheckError)]
                   /\ trace' = Append(trace, "playwright_check")
                   /\ pc' = "done"
              ELSE /\ result' = updated
                   /\ trace' = trace
                   /\ pc' = IF static_result.errors # <<>> /\ fetch_calls < 2
                            THEN "static_call" ELSE "done"
    /\ UNCHANGED <<url, PLAYWRIGHT_AVAILABLE, domain, force_js, static_result,
                   js_result, jpc, pending, page, browser, raised,
                   fetch_calls, client, render_calls>>

\* scrape, lines 65-94: take the fetch result and decide on the render pass
Decide ==
    /\ UNCHANGED <<extractVars, suspended>>
    /\ pc = "static_ret"
    /\ LET updated == Update(result, static_result)
           needs   == _needs_js_rendering(updated)
       IN  /\ needs_js' = needs
           /\ IF needs /\ PLAYWRIGHT_AVAILABLE
              THEN /\ result' = [updated EXCEPT
                                    !.meta = SetItem(@, "strategy", "js"),
                                    !.errors = Append(@, FallbackDecisionError)]
                   /\ trace' = Append(trace, "fallback_decision")
                   /\ pc' = "js_call"
              ELSE IF needs /\ ~PLAYWRIGHT_AVAILABLE
              THEN /\ result' = [updated EXCEPT
                                    !.errors = Append(@, PlaywrightCheckError)]
                   /\ trace' = Append(trace, "playwright_check")
                   /\ pc' = "done"
              ELSE /\ result' = updated
                   /\ trace' = trace
                   /\ pc' = "done"
    /\ UNCHANGED <<url, PLAYWRIGHT_AVAILABLE, domain, force_js, static_result,
                   js_result, jpc, pending, page, browser, raised,
                   fetch_calls, client, render_calls>>

\* _js_scrape, lines 224-240: entry of the render pass
JsScrape ==
    /\ UNCHANGED <<extractVars, suspended>>
    /\ pc = "js_call"
    /\ render_calls' = render_calls + 1
    /\ trace' = Append(trace, "render")
    /\ pc' = "js_run"
    /\ IF PLAYWRIGHT_AVAILABLE
       THEN /\ js_result' = PassResult(url, "js")
            /\ jpc' = "launch"
       ELSE /\ js_result' = JsUnavailable(PassResult(url, "js"))
            /\ jpc' = "return"
    /\ UNCHANGED <<url, PLAYWRIGHT_AVAILABLE, domain, result, force_js, needs_js,
                   static_result, pending, page, browser, raised, fetch_calls, client>>

\* lines 243-255: start the engine and launch the browser
JsLaunch ==
    /\ UNCHANGED <<extractVars, suspended>>
    /\ jpc = "launch"
    /\ \/ /\ browser' = "open"
          /\ jpc' = "setup"
          /\ UNCHANGED <<js_result, pending>>
       \/ \E e \in RenderExceptions :
          /\ pending' = e
          /\ js_result' = JsOuterExcept(js_result, e)
          /\ jpc' = "return"
          /\ UNCHANGED browser
    /\ UNCHANGED <<url, PLAYWRIGHT_AVAILABLE, domain, pc, result, force_js, needs_js,
                   static_result, page, raised, fetch_calls, client, render_calls,
                   trace>>

\* lines 258-300: context, page and init script; not inside the inner try
JsSetup ==
    /\ UNCHANGED <<extractVars, suspended>>
    /\ jpc = "setup"
    /\ \/ /\ jpc' = "goto"
          /\ UNCHANGED <<js_result, pending>>
       \/ \E e \in RenderExceptions :
          /\ pending' = e
          /\ js_result' = JsOuterExcept(js_result, e)
          /\ jpc' = "return"
    /\ UNCHANGED <<url, PLAYWRIGHT_AVAILABLE, domain, pc, result, force_js, needs_js,
                   static_result, page, browser, raised, fetch_calls, client,
                   render_calls, trace>>


\* the same, with the pass going on at the next line after the handler
Ran_on(r, after) ==
    /\ page' = Called(page, r.calls)
    /\ js_result' = IF r.raised = NoException THEN r.result
                    ELSE JsInnerExcept(r.result, r.raised)
    /\ pending' = IF r.raised = NoException THEN pending ELSE r.raised
    /\ jpc' = after

\* what a call of line 304-318 leaves behind: the calls it made on the
\* page, and either its result and the next line or the handler of lines
\* 329-338 and the finally clause
Ran(r, after) ==
    /\ page' = Called(page, r.calls)
    /\ IF r.raised = NoException
       THEN /\ js_result' = r.result
            /\ pending' = pending
            /\ jpc' = after
       ELSE /\ js_result' = JsInnerExcept(r.result, r.raised)
            /\ pending' = r.raised
            /\ jpc' = "finally"

\* line 304: navigation
JsGoto ==
    /\ UNCHANGED <<extractVars, suspended>>
    /\ jpc = "goto"
    /\ \/ \E p \in PageEnvs :
          /\ page' = Called(p, <<Call("goto", "goto", 0, 0, TRUE)>>)
          /\ jpc' = "wait_body"
          /\ UNCHANGED <<js_result, pending>>
       \/ \E e \in RenderExceptions :
          Ran([result |-> js_result, raised |-> e,
               calls |-> <<Call("goto", "goto", 0, 0, FALSE)>>], "wait_body")
    /\ UNCHANGED <<url, PLAYWRIGHT_AVAILABLE, domain, pc, result, force_js, needs_js,
                   static_result, browser, raised, fetch_calls, client, render_calls,
                   trace>>

\* lines 307-310: the pause and the wait for the body element
JsWaitBody ==
    /\ UNCHANGED <<extractVars, suspended>>
    /\ jpc = "wait_body"
    /\ \/ Ran([result |-> js_result, raised |-> NoException,
               calls |-> <<Call("wait_body", "wait_for_selector", 0, 0, TRUE)>>],
              "noise")
       \/ \E e \in RenderExceptions :
          Ran([result |-> js_result, raised |-> e,
               calls |-> <<Call("wait_body", "wait_for_selector", 0, 0, FALSE)>>],
              "noise")
    /\ UNCHANGED <<url, PLAYWRIGHT_AVAILABLE, domain, pc, result, force_js, needs_js,
                   static_result, browser, raised, fetch_calls, client,
                   render_calls, trace>>

\* line 313
JsRemoveNoise ==
    /\ UNCHANGED <<extractVars, suspended>>
    /\ jpc = "noise"
    /\ \E r \in {_remove_noise(page)} :
          Ran([result |-> js_result, raised |-> r.raised, calls |-> r.calls],
              "clicks")
    /\ UNCHANGED <<url, PLAYWRIGHT_AVAILABLE, domain, pc, result, force_js, needs_js,
                   static_result, browser, raised,
                   fetch_calls, client, render_calls, trace>>

\* line 316
JsPerformClicks ==
    /\ UNCHANGED <<extractVars, suspended>>
    /\ jpc = "clicks"
    /\ \E r \in {_perform_clicks(page, js_result)} : Ran(r, "scrolls")
    /\ UNCHANGED <<url, PLAYWRIGHT_AVAILABLE, domain, pc, result, force_js, needs_js,
                   static_result, browser, raised,
                   fetch_calls, client, render_calls, trace>>

\* line 317
JsPerformScrolls ==
    /\ UNCHANGED <<extractVars, suspended>>
    /\ jpc = "scrolls"
    /\ \E r \in {_perform_scrolls(page, js_result)} : Ran(r, "pagination")
    /\ UNCHANGED <<url, PLAYWRIGHT_AVAILABLE, domain, pc, result, force_js, needs_js,
                   static_result, browser, raised,
                   fetch_calls, client, render_calls, trace>>

\* line 318
JsFollowPagination ==
    /\ UNCHANGED <<extractVars, suspended>>
    /\ jpc = "pagination"
    /\ \E r \in {_follow_pagination(page, js_result, url)} : Ran(r, "extract")
    /\ UNCHANGED <<url, PLAYWRIGHT_AVAILABLE, domain, pc, result, force_js, needs_js,
                   static_result, browser, raised,
                   fetch_calls, client, render_calls, trace>>

\* lines 321-338: read the final markup and extract
JsExtract ==
    /\ UNCHANGED <<extractVars, suspended>>
    /\ jpc = "extract"
    /\ \E o \in ExtractOutcomes(url) :
          /\ js_result' = JsExtracted(js_result, o, url)
          /\ pending' = IF o.kind = "ok" THEN pending ELSE o.exc
          /\ page' = Called(page, <<Call("content", "content", 0, 0,
                                         o.kind # "content_error")>>)
    /\ jpc' = "finally"
    /\ UNCHANGED <<url, PLAYWRIGHT_AVAILABLE, domain, pc, result, force_js, needs_js,
                   static_result, browser, raised, fetch_calls, client,
                   render_calls, trace>>

\* lines 339-346: finally: browser.close()
JsClose ==
    /\ UNCHANGED <<extractVars, suspended>>
    /\ jpc = "finally"
    /\ \/ /\ browser' = "closed"
          /\ UNCHANGED <<js_result, pending>>
       \/ /\ pending' = PlaywrightError
          /\ js_result' = JsOuterExcept(js_result, PlaywrightError)
          /\ UNCHANGED browser
    /\ jpc' = "return"
    /\ UNCHANGED <<url, PLAYWRIGHT_AVAILABLE, domain, pc, result, force_js, needs_js,
                   static_result, page, raised, fetch_calls, client, render_calls,
                   trace>>

\* the same, with the render pass entered again while it gives no sections
JsReturn_again ==
    /\ UNCHANGED <<extractVars, suspended>>
    /\ pc = "js_run"
    /\ jpc = "return"
    /\ jpc' = "idle"
    /\ IF js_result.sections = <<>>
       THEN /\ pc' = "js_call"
            /\ render_calls' = render_calls - 1
            /\ trace' = SubSeq(trace, 1, Len(trace) - 1)
            /\ UNCHANGED result
       ELSE /\ pc' = "done"
            /\ UNCHANGED render_calls
            /\ IF force_js /\ PLAYWRIGHT_AVAILABLE
               THEN /\ result' = Update(result, js_result)
                    /\ trace' = Append(trace, "update")
               ELSE /\ result' = Merge(result, js_result)
                    /\ trace' = Append(trace, "merge")
    /\ UNCHANGED <<url, PLAYWRIGHT_AVAILABLE, domain, force_js, needs_js,
                   static_result, js_result, pending, page, browser, raised,
                   fetch_calls, client>>

\* line 348, then scrape lines 61 or 80-89: the render pass returns and its
\* result is taken over (forced render) or merged (fallback)
JsReturn ==
    /\ UNCHANGED <<extractVars, suspended>>
    /\ pc = "js_run"
    /\ jpc = "return"
    /\ jpc' = "idle"
    /\ IF force_js /\ PLAYWRIGHT_AVAILABLE
       THEN /\ result' = Update(result, js_result)
            /\ trace' = Append(trace, "update")
       ELSE /\ result' = Merge(result, js_result)
            /\ trace' = Append(trace, "merge")
    /\ pc' = "done"
    /\ UNCHANGED <<url, PLAYWRIGHT_AVAILABLE, domain, force_js, needs_js,
                   static_result, js_result, pending, page, browser, raised,
                   fetch_calls, client, render_calls>>

Next ==
    \/ ScrapeStart
    \/ StaticOpen
    \/ StaticScrape
    \/ Decide
    \/ JsScrape
    \/ JsLaunch
    \/ JsSetup
    \/ JsGoto
    \/ JsWaitBody
    \/ JsRemoveNoise
    \/ JsPerformClicks
    \/ JsPerformScrolls
    \/ JsFollowPagination
    \/ JsExtract
    \/ JsClose
    \/ JsReturn

Spec == Init /\ [][Next]_vars

\* the answers of the outside world explored where the state
\* space has to stay small: the GET is
\* answered with markup or fails with 403, 500 or a timeout; the markup has
\* no section or MaxSections long ones; the browser engine times out or
\* works; the page is plain or rich
AnswerBounds ==
    /\ client.answer \in {None, "ok", "status", "timeout"}
    /\ client.status \in {None, "403", "500"}
    /\ Len(static_result.sections) \in {0, MaxSections}
    /\ \A i \in 1..Len(static_result.sections) :
           static_result.sections[i].content.text = Text100
    /\ Get(static_result.meta, "title", "") = ""
    /\ pending \in {NoException, PlaywrightTimeout}
    /\ [page EXCEPT !.calls = <<>>] \in {PlainPage, RichPage}
    /\ Len(js_result.sections) \in {0, MaxSections}
    /\ Get(js_result.meta, "title", "Rendered Domain") = "Rendered Domain"

\* the steps of scrape with these answers
BoundedNext ==
    \/ ScrapeStart /\ AnswerBounds'
    \/ StaticOpen /\ AnswerBounds'
    \/ StaticScrape /\ AnswerBounds'
    \/ Decide /\ AnswerBounds'
    \/ JsScrape /\ AnswerBounds'
    \/ JsLaunch /\ AnswerBounds'
    \/ JsSetup /\ AnswerBounds'
    \/ JsGoto /\ AnswerBounds'
    \/ JsWaitBody /\ AnswerBounds'
    \/ JsRemoveNoise /\ AnswerBounds'
    \/ JsPerformClicks /\ AnswerBounds'
    \/ JsPerformScrolls /\ AnswerBounds'
    \/ JsFollowPagination /\ AnswerBounds'
    \/ JsExtract /\ AnswerBounds'
    \/ JsClose /\ AnswerBounds'
    \/ JsReturn /\ AnswerBounds'

\* every await of scrape and its passes is on an external call (the GET, a
\* call of the browser engine, a timer); when each of them returns or fails
\* the event loop resumes the invocation, so a step that can be taken is
\* taken
LiveSpec == Init /\ [][BoundedNext]_vars /\ WF_vars(BoundedNext)


-----------------------------------------------------------------------------
(* The content extractor: specifications *)

ExtractInit ==
    /\ InFetchPass
    /\ doc \in Docs
    /\ epc = "start"
    /\ esections = <<>>
    /\ LocalsInitial

\* lines 577-617: find the landmarks
FindLandmarks ==
    /\ epc = "start"
    /\ landmarks' = Landmarks(doc)
    /\ epc' = "loop"
    /\ UNCHANGED <<doc, idx, esections, hidx, heading_sections, element, section,
                   dedup_in, dedup_calls>>
    /\ UNCHANGED <<scrapeVars, suspended>>

\* lines 620-623: one iteration of the loop over the landmarks
ProcessLandmark ==
    /\ epc = "loop"
    /\ idx < Len(landmarks)
    /\ LET made == _process_section(landmarks[idx + 1][2], landmarks[idx + 1][1],
                                    idx, url)
       IN  /\ element' = landmarks[idx + 1][2]
           /\ section' = made
           /\ esections' = IF Qualifies(made) THEN Append(esections, made)
                          ELSE esections
    /\ idx' = idx + 1
    /\ UNCHANGED <<doc, epc, landmarks, hidx, heading_sections, dedup_in,
                   dedup_calls>>
    /\ UNCHANGED <<scrapeVars, suspended>>

\* lines 626-627 and 779-784: after the loop, decide on the heading fallback
TryHeadings ==
    /\ epc = "loop"
    /\ idx = Len(landmarks)
    /\ epc' = IF NeedsHeadings(esections) THEN "hloop" ELSE "dedup"
    /\ UNCHANGED <<doc, landmarks, idx, esections, hidx, heading_sections,
                   element, section, dedup_in, dedup_calls>>
    /\ UNCHANGED <<scrapeVars, suspended>>

\* lines 786-807: one iteration of the loop over the headings
ProcessHeading ==
    /\ epc = "hloop"
    /\ hidx < Len(HeadingList(doc))
    /\ LET virtual_section == VirtualSection(HeadingList(doc)[hidx + 1])
           made == _process_section(virtual_section, "section",
                                    Len(heading_sections), url)
       IN  /\ element' = virtual_section
           /\ section' = made
           /\ heading_sections' = IF Qualifies(made)
                                  THEN Append(heading_sections, made)
                                  ELSE heading_sections
    /\ hidx' = hidx + 1
    /\ UNCHANGED <<doc, epc, landmarks, idx, esections, dedup_in, dedup_calls>>
    /\ UNCHANGED <<scrapeVars, suspended>>

\* lines 809 and 628: the heading sections are appended
ExtendSections ==
    /\ epc = "hloop"
    /\ hidx = Len(HeadingList(doc))
    /\ esections' = esections \o heading_sections
    /\ epc' = "dedup"
    /\ UNCHANGED <<doc, landmarks, idx, hidx, heading_sections, element, section,
                   dedup_in, dedup_calls>>
    /\ UNCHANGED <<scrapeVars, suspended>>

\* lines 631-633: deduplicate and return
Deduplicate ==
    /\ epc = "dedup"
    /\ dedup_in' = esections
    /\ esections' = _deduplicate_sections(esections)
    /\ dedup_calls' = dedup_calls + 1
    /\ epc' = "done"
    /\ UNCHANGED <<doc, landmarks, idx, hidx, heading_sections, element, section>>
    /\ UNCHANGED <<scrapeVars, suspended>>

ExtractNext ==
    \/ FindLandmarks
    \/ ProcessLandmark
    \/ TryHeadings
    \/ ProcessHeading
    \/ ExtendSections
    \/ Deduplicate

ExtractSpec == ExtractInit /\ [][ExtractNext]_vars

\* the extractor run on the pages with one landmark
TypeInit ==
    /\ InFetchPass
    /\ doc \in TypePages
    /\ epc = "start"
    /\ esections = <<>>
    /\ LocalsInitial

TypeSpec == TypeInit /\ [][ExtractNext]_vars

-----------------------------------------------------------------------------
(* _deduplicate_sections on its own: applied to a section sequence and      *)
(* then to its own output                                                   *)

DedupInit ==
    /\ InFetchPass
    /\ doc = NoDocument
    /\ epc = "dedup"
    /\ esections \in SeqsUpTo(SectionSamples, MaxDedupLen)
    /\ LocalsInitial

\* _deduplicate_sections applied to what it returned
DeduplicateAgain ==
    /\ epc = "done"
    /\ dedup_calls = 1
    /\ dedup_in' = esections
    /\ esections' = _deduplicate_sections(esections)
    /\ dedup_calls' = dedup_calls + 1
    /\ UNCHANGED <<doc, epc, landmarks, idx, hidx, heading_sections, element,
                   section>>
    /\ UNCHANGED <<scrapeVars, suspended>>

DedupNext ==
    \/ Deduplicate
    \/ DeduplicateAgain

DedupSpec == DedupInit /\ [][DedupNext]_vars


-----------------------------------------------------------------------------
(* The interaction scripts: specification *)

\* most elements a tab selector matches on a page of the model
MaxMatches == 4

\* most successive attempts a load-more selector meets a visible button
MaxAttempts == 4

\* most pagination iterations a page of the model describes
MaxLinks == 3

\* pages that differ in one script each: in their tab controls; in their
\* load-more buttons (at most two selectors match); in their growth under
\* scrolling; in their next controls
ScriptPages ==
    LET TabPages ==
            {[PlainPage EXCEPT !.tabs = t, !.tab_fail = f] :
                t \in [1..Len(tab_selectors) -> {-1, 0, MaxMatches - 2, MaxMatches}],
                f \in {{}, {1}, {0, 1, 2}}}
        met == {Oks(1), Oks(MaxAttempts), <<"ok", "fail", "ok">>,
                <<"ok", "none", "ok">>, <<"raise">>}
        more_sels == 1..Len(load_more_selectors)
        MorePages ==
            {[PlainPage EXCEPT
                 !.more = [k \in more_sels |->
                              IF k = a THEN m ELSE IF k = b THEN n ELSE <<>>]] :
                a \in more_sels, b \in more_sels, m \in met \cup {<<>>}, n \in met}
        ScrollPages ==
            {[PlainPage EXCEPT
                 !.heights = <<900, 900 + g[1], 900 + g[1] + g[2],
                               900 + g[1] + g[2] + g[3]>>,
                 !.scroll_fail = f, !.scroll_steps = s] :
                g \in [1..max_scrolls -> {0, 900}], f \in 0..max_scrolls,
                s \in {<<3, 4, 5>>, <<5, 3, 3>>}}
        sels == 1..Len(next_selectors)
        later == [k \in sels |-> CASE k = 1 -> "hidden"
                                   [] k = 2 -> "query_raises"
                                   [] k = 3 -> "visible_raises"
                                   [] k = 4 -> "visible"
                                   [] OTHER -> "none"]
        unknown == [k \in sels |-> IF k = Len(next_selectors)
                                   THEN "visible_raises" ELSE "none"]
        absent == [k \in sels |-> CASE k = 1 -> "hidden"
                                    [] k = 2 -> "query_raises"
                                    [] OTHER -> "none"]
        steps == { Link("?page=2", FALSE, FALSE), Link("?page=3", FALSE, FALSE),
                   Link("#", FALSE, FALSE), Link(None, FALSE, FALSE),
                   Link("?page=2", FALSE, TRUE), Link("", TRUE, FALSE),
                   [Link("/archive", FALSE, FALSE) EXCEPT !.scan = later],
                   [Link(None, FALSE, FALSE) EXCEPT !.scan = unknown],
                   [Link("?page=2", FALSE, FALSE) EXCEPT !.scan = absent] }
        LinkPages == {[PlainPage EXCEPT !.links = l] : l \in SeqsUpTo(steps, MaxLinks)}
    IN  TabPages \cup MorePages \cup ScrollPages \cup LinkPages

\* a forced render pass has navigated to page p and seen its body element
InRenderPass(p) ==
    /\ url = "https://en.Wikipedia.org/wiki/TLA"
    /\ PLAYWRIGHT_AVAILABLE = TRUE
    /\ pc = "js_run"
    /\ result = [ScrapeResult(url) EXCEPT !.meta.strategy = "js"]
    /\ domain = "en.wikipedia.org"
    /\ force_js = TRUE
    /\ needs_js = FALSE
    /\ static_result = PassResult(url, "static")
    /\ js_result = PassResult(url, "js")
    /\ jpc = "noise"
    /\ pending = NoException
    /\ page = Called(p, <<Call("goto", "goto", 0, 0, TRUE),
                          Call("wait_body", "wait_for_selector", 0, 0, TRUE)>>)
    /\ browser = "open"
    /\ raised = NoException
    /\ fetch_calls = 0
    /\ client = NoClient
    /\ render_calls = 1
    /\ trace = <<"render">>
    /\ suspended = NoInvocation
    /\ ExtractorIdle

ScriptInit == \E p \in ScriptPages : InRenderPass(p)

ScriptNext ==
    \/ JsRemoveNoise
    \/ JsPerformClicks
    \/ JsPerformScrolls
    \/ JsFollowPagination

ScriptSpec == ScriptInit /\ [][ScriptNext]_vars


-----------------------------------------------------------------------------
(* Two invocations of scrape on one event loop: main.py builds a WebScraper *)
(* per request (line 53) and awaits its scrape (line 56); everything scrape *)
(* and its passes write is a local of the invocation, the module flag       *)
(* PLAYWRIGHT_AVAILABLE is only read.  One invocation runs, the other waits *)
(* at an await with its locals in `suspended`.                              *)

\* the locals of the running invocation
Locals ==
    [url |-> url, pc |-> pc, result |-> result, domain |-> domain,
     force_js |-> force_js, needs_js |-> needs_js,
     static_result |-> static_result, js_result |-> js_result, jpc |-> jpc,
     pending |-> pending, page |-> page, browser |-> browser, raised |-> raised,
     fetch_calls |-> fetch_calls, client |-> client,
     render_calls |-> render_calls, trace |-> trace]

\* the locals of an invocation that has not started
Fresh(u) ==
    [url |-> u, pc |-> "start", result |-> ScrapeResult(u), domain |-> "",
     force_js |-> FALSE, needs_js |-> FALSE,
     static_result |-> PassResult(u, "static"), js_result |-> PassResult(u, "js"),
     jpc |-> "idle", pending |-> NoException, page |-> PlainPage,
     browser |-> "none", raised |-> NoException, fetch_calls |-> 0,
     client |-> NoClient, render_calls |-> 0, trace |-> <<>>]

\* the running invocation waits at an await (the GET of line 190, a call of
\* the browser engine), has not started or has returned
AtAwait ==
    \/ pc \in {"start", "static_get", "done"}
    \/ pc = "js_run" /\ jpc \notin {"idle", "return"}

\* the event loop resumes the invocation with these locals
Resume(inv) ==
    /\ url' = inv.url
    /\ pc' = inv.pc
    /\ result' = inv.result
    /\ domain' = inv.domain
    /\ force_js' = inv.force_js
    /\ needs_js' = inv.needs_js
    /\ static_result' = inv.static_result
    /\ js_result' = inv.js_result
    /\ jpc' = inv.jpc
    /\ pending' = inv.pending
    /\ page' = inv.page
    /\ browser' = inv.browser
    /\ raised' = inv.raised
    /\ fetch_calls' = inv.fetch_calls
    /\ client' = inv.client
    /\ render_calls' = inv.render_calls
    /\ trace' = inv.trace

\* the same, with the render result kept in the scraper and one scraper
\* serving both invocations
Switch_shared ==
    /\ AtAwait
    /\ suspended.pc \notin {"none", "done"}
    /\ Resume([suspended EXCEPT !.js_result = js_result])
    /\ suspended' = Locals
    /\ UNCHANGED <<PLAYWRIGHT_AVAILABLE, extractVars>>

\* the running invocation waits and the event loop resumes the other one
Switch ==
    /\ AtAwait
    /\ suspended.pc \notin {"none", "done"}
    /\ Resume(suspended)
    /\ suspended' = Locals
    /\ UNCHANGED <<PLAYWRIGHT_AVAILABLE, extractVars>>

\* the two URLs: one is fetched first, the other is rendered at once
PairUrls == {"https://example.com/blog", "https://en.Wikipedia.org/wiki/TLA"}

PairInit ==
    /\ ScrapeInit
    /\ url \in PairUrls
    /\ suspended \in {Fresh(u) : u \in PairUrls \ {url}}

\* a step of the running invocation, or a switch to the other one
PairNext ==
    \/ BoundedNext
    \/ Switch

PairSpec == PairInit /\ [][PairNext]_vars


-----------------------------------------------------------------------------
(* scrape over hosts that hold an allow-list entry at their end, at their  *)
(* start, in their middle, as a whole, in another case, or in the path     *)
(* only                                                                     *)

HostUrls ==
    { "https://example.com/blog",
      "https://en.Wikipedia.org/wiki/TLA",
      "https://www.dropbox.com/home",
      "https://X.com/home",
      "https://x.com.example.net/",
      "https://my-uber.computer.test/",
      "https://example.org/x.com",
      "https://xcom.example/" }

ForceInit == ScrapeCalledWith(HostUrls) /\ suspended = NoInvocation

ForceSpec == ForceInit /\ [][BoundedNext]_vars

-----------------------------------------------------------------------------
(* Properties *)

Done == pc = "done"

\* number of entries of `errors` with phase ph
CountPhase(errors, ph) ==
    Cardinality({i \in 1..Len(errors) : Get(errors[i], "phase", None) = ph})

\* the block-indicator tokens of the strategy selector
BlockTokens == {"403", "429", "Forbidden", "Too Many Requests"}

\* some recorded error message contains a block token
Blocked(errors) ==
    \E i \in 1..Len(errors) : \E t \in BlockTokens : Contains(errors[i].message, t)

\* total length of the sections' texts
RECURSIVE TextTotal(_)
TextTotal(sections) ==
    IF sections = <<>> THEN 0
    ELSE Len(Head(sections).content.text) + TextTotal(Tail(sections))

\* the fetch pass has returned
Fetched == fetch_calls = 1 /\ pc \notin {"start", "static_call", "static_get"}

\* the needs-rendering decision was taken
Decided ==
    fetch_calls = 1 /\ pc \notin {"start", "static_call", "static_get", "static_ret"}

\* scrape returned through the merge of a fallback render pass
Merged == Done /\ trace # <<>> /\ trace[Len(trace)] = "merge"

\* the lowercased network location of the URL, once scrape has parsed it,
\* contains an entry of the allow-list
HostOnAllowList ==
    \E d \in { "wikipedia.org", "wikimedia.org", "medium.com", "vercel.com",
               "twitter.com", "x.com", "reddit.com", "linkedin.com",
               "instagram.com", "facebook.com", "youtube.com", "netflix.com",
               "airbnb.com", "uber.com" } :
        Contains(domain, d)

\* scrape has a next step to take (ScrapeStart is enabled whenever pc = "start")
CanStep ==
    \/ pc = "start"
    \/ ENABLED (StaticOpen \/ StaticScrape \/ Decide \/ JsScrape \/ JsLaunch \/ JsSetup \/ JsGoto
                   \/ JsWaitBody \/ JsRemoveNoise \/ JsPerformClicks
                   \/ JsPerformScrolls \/ JsFollowPagination \/ JsExtract
                   \/ JsClose \/ JsReturn)

\* C1: scrape always goes on until it returns, never raises to its caller,
\* and an exception that escapes the passes inside scrape (here: the URL
\* cannot be parsed) is recorded as exactly one error with phase "scrape" in
\* the result that is still returned.
C1_NeverRaises ==
    /\ raised = NoException
    /\ ~Done => CanStep
    /\ (Done /\ url = "http://[::1/page") =>
          /\ CountPhase(result.errors, "scrape") = 1
          /\ result.errors[Len(result.errors)] =
                [message |-> "Invalid IPv6 URL", phase |-> "scrape"]
          /\ result.url = url

C1_Witness ==
    Done /\ raised = NoException /\ CountPhase(result.errors, "scrape") = 1

\* C2 (as claimed): every returned result has meta with title, description,
\* language, canonical and strategy, sections and errors as sequences and
\* interactions with clicks, scrolls and pages.
C2_FullyFormed ==
    Done =>
        /\ DOMAIN result = {"url", "scrapedAt", "meta", "sections",
                            "interactions", "errors"}
        /\ {"title", "description", "language", "canonical", "strategy"}
               \subseteq DOMAIN result.meta
        /\ DOMAIN result.interactions = {"clicks", "scrolls", "pages"}
        /\ DOMAIN result.sections = 1..Len(result.sections)
        /\ DOMAIN result.errors = 1..Len(result.errors)

\* C3: the returned result carries the URL it was asked for, and its pages
\* are non-empty and start with that URL, on every path.
C3_UrlAndFirstPage ==
    Done =>
        /\ result.url = url
        /\ Len(result.interactions.pages) >= 1
        /\ result.interactions.pages[1] = url

C3_Witness ==
    Merged /\ Len(result.interactions.pages) = 3
           /\ result.interactions.pages[1] = url

\* C4: once the fetch pass recorded an error message with a block token, the
\* render pass is never invoked although rendering is available, neither a
\* fallback_decision nor a playwright_check error is appended, and the
\* returned result is the fetch result: its errors hold the phase "fetch"
\* entry and meta.strategy is "static".
C4_BlockedNoRender ==
    (Fetched /\ Blocked(static_result.errors)) =>
        /\ render_calls = 0
        /\ pc \in {"static_ret", "done"}
        /\ Done =>
              /\ CountPhase(result.errors, "fallback_decision") = 0
              /\ CountPhase(result.errors, "playwright_check") = 0
              /\ result.errors = static_result.errors
              /\ CountPhase(result.errors, "fetch") >= 1
              /\ result.meta = static_result.meta
              /\ result.meta.strategy = "static"
              /\ result.sections = static_result.sections
              /\ result.interactions = static_result.interactions

C4_Witness ==
    Done /\ PLAYWRIGHT_AVAILABLE /\ fetch_calls = 1
         /\ Blocked(static_result.errors) /\ render_calls = 0

\* C5: for a host on the forced-render allow-list with rendering available,
\* the fetch pass is never invoked and the returned meta.strategy is "js",
\* whether the render pass succeeded or failed.
C5_ForcedRender ==
    (pc # "start" /\ HostOnAllowList /\ PLAYWRIGHT_AVAILABLE) =>
        /\ fetch_calls = 0
        /\ pc \notin {"static_call", "static_get"}
        /\ Done => /\ render_calls = 1
                   /\ Get(result.meta, "strategy", None) = "js"

C5_Witness ==
    /\ Done /\ HostOnAllowList /\ PLAYWRIGHT_AVAILABLE
    /\ result.sections = <<>> /\ CountPhase(result.errors, "render") = 1
    /\ Get(result.meta, "strategy", None) = "js"

\* C6: the needs-rendering decision over the fetch result is false when an
\* error message contains a block token, and otherwise true exactly when
\* there are fewer than 2 sections or fewer than 200 characters of section
\* text in total; 1 section and no error leads to a render attempt when
\* rendering is available, 5 sections of 100 characters and no error do not.
C6_NeedsRendering ==
    /\ Decided =>
          needs_js = IF Blocked(static_result.errors) THEN FALSE
                     ELSE \/ Len(static_result.sections) < 2
                          \/ TextTotal(static_result.sections) < 200
    /\ (Done /\ fetch_calls = 1 /\ PLAYWRIGHT_AVAILABLE
          /\ Len(static_result.sections) = 1 /\ static_result.errors = <<>>)
          => render_calls = 1
    /\ (Done /\ fetch_calls = 1
          /\ Len(static_result.sections) = 5 /\ static_result.errors = <<>>
          /\ \A i \in 1..5 : Len(static_result.sections[i].content.text) = 100)
          => render_calls = 0

C6_Witness ==
    /\ Done /\ fetch_calls = 1 /\ ~needs_js /\ render_calls = 0
    /\ Len(static_result.sections) = 2 /\ static_result.errors = <<>>
    /\ TextTotal(static_result.sections) = 200

\* C7: when the fetch result needs rendering and rendering is available,
\* exactly one fallback_decision error is appended, then the render pass
\* runs exactly once, then the merge happens; no result carries a
\* fallback_decision error on any other path.
C7_FallbackPath ==
    /\ CountPhase(result.errors, "fallback_decision") <= 1
    /\ CountPhase(js_result.errors, "fallback_decision") = 0
    /\ (Decided /\ needs_js /\ PLAYWRIGHT_AVAILABLE) =>
          /\ CountPhase(result.errors, "fallback_decision") = 1
          /\ render_calls <= 1
          /\ Done => /\ render_calls = 1
                     /\ trace = <<"fetch", "fallback_decision", "render", "merge">>
    /\ CountPhase(result.errors, "fallback_decision") = 1 =>
          Decided /\ needs_js /\ PLAYWRIGHT_AVAILABLE

C7_Witness ==
    /\ Done /\ trace = <<"fetch", "fallback_decision", "render", "merge">>
    /\ CountPhase(result.errors, "fallback_decision") = 1
    /\ render_calls = 1

\* C8: when the fetch result needs rendering and rendering is unavailable,
\* exactly one playwright_check error is appended and the rest of the
\* returned result is the fetch result (url, meta with strategy "static",
\* sections, interactions, the earlier errors); the render pass is not run.
C8_Unavailable ==
    (Decided /\ needs_js /\ ~PLAYWRIGHT_AVAILABLE) =>
        /\ Done
        /\ render_calls = 0
        /\ Len(result.errors) = Len(static_result.errors) + 1
        /\ SubSeq(result.errors, 1, Len(static_result.errors)) = static_result.errors
        /\ result.errors[Len(result.errors)].phase = "playwright_check"
        /\ CountPhase(result.errors, "playwright_check") = 1
        /\ result.url = url
        /\ result.meta = static_result.meta
        /\ result.meta.strategy = "static"
        /\ result.sections = static_result.sections
        /\ result.interactions = static_result.interactions

C8_Witness ==
    /\ Done /\ fetch_calls = 1 /\ needs_js /\ ~PLAYWRIGHT_AVAILABLE
    /\ Len(static_result.sections) = 1
    /\ CountPhase(result.errors, "playwright_check") = 1

\* C9: after a merge the sections are those of the render result if it has
\* strictly more sections than the fetch result, and those of the fetch
\* result otherwise.
C9_MergeSections ==
    Merged =>
        result.sections =
            IF Len(js_result.sections) > Len(static_result.sections)
            THEN js_result.sections
            ELSE static_result.sections

C9_Witness ==
    /\ Merged
    /\ Len(js_result.sections) = Len(static_result.sections)
    /\ Len(static_result.sections) = 1
    /\ result.sections = static_result.sections
    /\ result.sections # js_result.sections

\* C10 (as claimed): after a merge in which the render result has an empty
\* or missing title and not strictly more sections than the fetch result,
\* the returned meta.strategy is "static".
C10_StrategyRetained ==
    (Merged /\ ~Truthy(Get(js_result.meta, "title", None))
            /\ Len(js_result.sections) <= Len(static_result.sections))
        => Get(result.meta, "strategy", None) = "static"

\* the four metadata fields _extract_meta produces
MetaFields == {"title", "description", "language", "canonical"}

\* C11: after a merge, title, description, language and canonical are those
\* of the render result when its title is non-empty, and then strategy is
\* "js"; when its title is empty or absent, the metadata fields are the ones
\* the fetch pass produced (none of them is changed, added or removed).
C11_MergeMeta ==
    Merged =>
        IF Truthy(Get(js_result.meta, "title", None))
        THEN /\ \A f \in MetaFields : result.meta[f] = js_result.meta[f]
             /\ result.meta.strategy = "js"
        ELSE /\ \A f \in MetaFields :
                   Get(result.meta, f, "absent") = Get(static_result.meta, f, "absent")
             /\ DOMAIN result.meta = DOMAIN static_result.meta

C11_Witness ==
    /\ Merged
    /\ Get(static_result.meta, "title", None) = "Example Domain"
    /\ Get(js_result.meta, "title", None) = "Rendered Domain"
    /\ result.meta.description = "Rendered description"
    /\ result.meta.language = "fr"
    /\ result.meta.canonical = "https://example.com/blog?rendered=1"

\* C12: from the fallback decision on, the errors of the fetch pass stay at
\* the front of the result's errors, followed by the fallback_decision
\* entry; after the merge the errors are those of the fetch pass, then the
\* fallback_decision entry, then all errors of the render pass, each in its
\* original order.
C12_MergeErrors ==
    /\ (fetch_calls = 1 /\ pc \in {"js_call", "js_run"}) =>
            result.errors = static_result.errors \o <<FallbackDecisionError>>
    /\ Merged =>
            result.errors = static_result.errors \o <<FallbackDecisionError>>
                               \o js_result.errors

C12_Witness ==
    /\ Merged
    /\ Len(static_result.errors) = 1
    /\ Len(js_result.errors) = 2
    /\ Len(result.errors) = 4
    /\ result.errors[1].phase = "fetch"
    /\ result.errors[3].phase = "scroll"
    /\ result.errors[4].phase = "js_scrape"

\* the interactions of a pass that performed none
NoInteractions == [clicks |-> <<>>, scrolls |-> 0, pages |-> <<url>>]

\* C13: after a merge the interactions are exactly those of the render
\* result; until the render pass reaches its click script its interactions
\* are clicks empty, scrolls 0 and pages [url], so a render pass that failed
\* before any interaction (here: the browser never opened) returns these.
C13_MergeInteractions ==
    /\ Merged => result.interactions = js_result.interactions
    /\ (pc = "js_run" /\ jpc \in {"launch", "setup", "goto", "wait_body",
                                    "noise", "clicks"})
            => js_result.interactions = NoInteractions
    /\ (Merged /\ browser = "none") => result.interactions = NoInteractions

C13_Witness ==
    /\ Merged
    /\ Len(result.interactions.clicks) = 7
    /\ result.interactions.scrolls = 3
    /\ Len(result.interactions.pages) = 3
    /\ result.interactions = js_result.interactions
    /\ result.interactions # static_result.interactions

\* a fallback render pass whose browser launch failed has been merged
C13_EarlyFailure ==
    Merged /\ browser = "none" /\ Len(js_result.errors) = 1
           /\ result.interactions = NoInteractions

PhaseVocabulary ==
    {"fetch", "render", "js_scrape", "scroll", "pagination",
     "fallback_decision", "playwright_check", "scrape"}

\* C15 (as claimed): every error entry of a returned result has a phase of
\* the fixed vocabulary.
C15_PhaseVocabulary ==
    Done => \A i \in 1..Len(result.errors) :
                result.errors[i].phase \in PhaseVocabulary

\* _extract_sections has returned
Extracted == epc = "done" /\ dedup_calls = 1

\* the ids of a section sequence are pairwise different
UniqueIds(secs) ==
    \A i, j \in 1..Len(secs) : i # j => secs[i].id # secs[j].id

\* C16 (as claimed): no two sections returned by the extractor share an id.
C16_UniqueIds ==
    (doc # NoDocument /\ Extracted) => UniqueIds(esections)

\* the ids of a section sequence
Ids(secs) == [i \in 1..Len(secs) |-> secs[i].id]

\* a main element with an h1 and an h2 part: the id of the main section is
\* repeated by the first heading section
C16_Collision ==
    /\ Extracted
    /\ doc = Document(<<MainTwoParts>>)
    /\ Ids(esections) = <<"section-0", "section-0", "section-1">>

\* C17: deduplication is idempotent: applied to its own output it returns
\* that output unchanged.
C17_DedupIdempotent ==
    dedup_calls = 2 => esections = dedup_in

C17_Witness ==
    /\ dedup_calls = 2
    /\ Len(esections) = 2
    /\ Fingerprint(esections[1]) # ""
    /\ Fingerprint(esections[2]) = ""
    /\ esections = dedup_in

\* _process_section has been called and has returned `section` for `element`
Processed == idx + hidx > 0

\* C18: a section has at most 20 links, 10 images, 5 lists and 3 tables; its
\* rawHtml is the element's markup when that has at most 1000 characters
\* and its first 1000 characters followed by "..." otherwise, and truncated
\* tells which of the two it is.
C18_Caps ==
    Processed =>
        /\ Len(section.content.links) <= 20
        /\ Len(section.content.images) <= 10
        /\ Len(section.content.lists) <= 5
        /\ Len(section.content.tables) <= 3
        /\ section.truncated = (Len(Html(element)) > 1000)
        /\ section.rawHtml = IF Len(Html(element)) > 1000
                             THEN SubSeq(Html(element), 1, 1000) \o "..."
                             ELSE Html(element)
        /\ Len(section.rawHtml) <= 1003

C18_Witness ==
    /\ Processed
    /\ Len(Css(element, {"a"})) = 21
    /\ Len(Css(element, {"img"})) = 11
    /\ Len(Css(element, {"ul"})) = 6
    /\ Len(Css(element, {"table"})) = 4
    /\ Len(section.content.links) = 20
    /\ Len(section.content.images) = 10
    /\ Len(section.content.lists) = 5
    /\ Len(section.content.tables) = 3
    /\ section.truncated
    /\ Len(section.rawHtml) = 1003

\* markup of exactly 1000 characters is kept whole
C18_Boundary ==
    Processed /\ Len(Html(element)) = 1000 /\ ~section.truncated
              /\ Len(section.rawHtml) = 1000

\* a is a subsequence of b: a[i..] can be matched, in order, in b[j..]
RECURSIVE IsSubseqFrom(_, _, _, _)
IsSubseqFrom(a, b, i, j) ==
    IF i > Len(a) THEN TRUE
    ELSE IF j > Len(b) THEN FALSE
    ELSE IF a[i] = b[j] THEN IsSubseqFrom(a, b, i + 1, j + 1)
    ELSE IsSubseqFrom(a, b, i, j + 1)

\* the sections that came out of the loop over the landmarks
LandmarkSections ==
    SubSeq(dedup_in, 1, Len(dedup_in) - Len(heading_sections))

\* the number that ends the id of a section
IdIdx(s) == CHOOSE k \in 0..99 : s.id = s.type \o "-" \o Str(k)

\* C19: the list handed to deduplication holds the landmark sections in
\* landmark discovery order (each made from the landmark its index names,
\* indices increasing), then the heading sections; the heading fallback
\* runs, and heading sections exist, only with fewer than 3 landmark
\* sections; the extractor's output is a subsequence of that list.
C19_Ordering ==
    /\ epc = "hloop" => Len(esections) < 3
    /\ (doc # NoDocument /\ Extracted) =>
          /\ dedup_in = LandmarkSections \o heading_sections
          /\ \A i \in 1..Len(LandmarkSections) :
                /\ IdIdx(LandmarkSections[i]) < Len(landmarks)
                /\ LandmarkSections[i] =
                      _process_section(landmarks[IdIdx(LandmarkSections[i]) + 1][2],
                                       landmarks[IdIdx(LandmarkSections[i]) + 1][1],
                                       IdIdx(LandmarkSections[i]), url)
                /\ \A j \in 1..Len(LandmarkSections) :
                      i < j => IdIdx(LandmarkSections[i]) < IdIdx(LandmarkSections[j])
          /\ heading_sections # <<>> => Len(LandmarkSections) < 3
          /\ IsSubseqFrom(esections, dedup_in, 1, 1)

C19_Witness ==
    /\ doc # NoDocument /\ Extracted
    /\ Len(LandmarkSections) = 2
    /\ Len(heading_sections) = 3
    /\ Len(esections) = 4
    /\ esections[1] = LandmarkSections[1]
    /\ esections[2] = LandmarkSections[2]
    /\ esections[3] = heading_sections[2]
    /\ esections[4] = heading_sections[3]

\* the extractor ran on a page whose three landmark sections all qualified
C19_NoFallback ==
    doc # NoDocument /\ Extracted /\ Len(LandmarkSections) = 3
        /\ heading_sections = <<>> /\ hidx = 0

\* C20: a page whose only landmark is a main element with one h1 "Title"
\* followed by three paragraphs of more than 10 characters yields exactly
\* one section, of type "section", label "Title" and headings ["Title"];
\* the heading section made from the same h1 and paragraphs is the one
\* deduplication removes.
C20_TitlePage ==
    (doc \in TitlePages /\ Extracted) =>
        /\ Len(esections) = 1
        /\ esections[1].type = "section"
        /\ esections[1].label = "Title"
        /\ esections[1].content.headings = <<"Title">>
        /\ Len(dedup_in) = 2
        /\ Len(heading_sections) = 1
        /\ dedup_in[2] = heading_sections[1]
        /\ esections = <<dedup_in[1]>>

C20_Witness ==
    /\ doc \in TitlePages /\ Extracted
    /\ Len(dedup_in) = 2
    /\ Len(esections) = 1
    /\ esections[1].label = "Title"
    /\ Len(esections[1].content.text) > 100

\* a forced render pass on a page of PageEnvs is about to remove the noise
ScriptInitReached == \E p \in PageEnvs : InRenderPass(p)

-----------------------------------------------------------------------------
(* Properties of the interaction scripts *)

\* the calls a script made on the page, in order
CallsOf(script) == SelectSeq(page.calls, LAMBDA c : c.script = script)

\* the scroll script has returned
Scrolled == jpc \in {"pagination", "extract", "finally", "return"}
            /\ CallsOf("scroll") # <<>>

\* C21: the scroll script runs at most 3 rounds, starts no round after a
\* round that left the document height unchanged (or that raised), and sets
\* scrolls to the number of rounds it ran to the end, the round without a
\* height change included.
C21_ScrollRounds ==
    Scrolled =>
        LET rounds == CallsOf("scroll")
        IN  /\ Len(rounds) <= 3
            /\ \A i \in 1..Len(rounds) : rounds[i].n = i
            /\ \A i \in 2..Len(rounds) :
                  /\ rounds[i - 1].ok
                  /\ page.heights[i] # page.heights[i - 1]
            /\ js_result.interactions.scrolls
                  = Cardinality({i \in 1..Len(rounds) : rounds[i].ok})

\* the second round left the height as the first round had left it: the loop
\* ended there, and both rounds are counted
C21_Witness ==
    /\ Scrolled
    /\ page.heights = <<900, 1800, 1800, 1800>>
    /\ Len(CallsOf("scroll")) = 2
    /\ js_result.interactions.scrolls = 2

\* pagination clicked a next control and the click (or the wait for the
\* navigation that follows it) raised
PaginationClickFailed ==
    \E i \in 1..Len(page.calls) :
        /\ page.calls[i].script = "pagination"
        /\ page.calls[i].op = "click"
        /\ ~page.calls[i].ok

\* C22: a click or navigation failure during pagination ends pagination, does
\* not end the page session (the final markup is read next), and is recorded
\* as an error with phase "pagination".
C22_PaginationFailure ==
    (PaginationClickFailed /\ jpc \in {"extract", "finally", "return"}) =>
        /\ LET made == CallsOf("pagination")
           IN  ~made[Len(made)].ok
        /\ jpc = "extract" => pending = NoException
        /\ CountPhase(js_result.errors, "pagination") >= 1

\* the click on the first next control raised: pagination is over and the
\* render pass goes on to read the markup
C22_ClickFailed ==
    /\ PaginationClickFailed
    /\ jpc = "extract"
    /\ js_result.interactions.pages
          = <<"https://example.com/blog", "https://example.com/blog?page=2">>

\* what the next selectors meet in iteration i (nothing once the page
\* describes no further iteration)
ScanOf(i) ==
    IF i <= Len(page.links) THEN page.links[i].scan
    ELSE [k \in 1..Len(next_selectors) |-> "none"]

\* no selector of iteration i finds a control that is_visible reports visible
NoVisibleControl(i) == \A k \in 1..Len(next_selectors) : ScanOf(i)[k] # "visible"

\* the first occurrences of the elements of seq, in order
RECURSIVE FirstOccurrences(_, _, _)
FirstOccurrences(seq, i, kept) ==
    IF i > Len(seq) THEN kept
    ELSE FirstOccurrences(seq, i + 1,
             IF \E j \in 1..Len(kept) : kept[j] = seq[i] THEN kept
             ELSE Append(kept, seq[i]))

\* the next URLs resolved by the iterations that read an href, in order
ResolvedUrls ==
    LET read == SelectSeq(CallsOf("pagination"),
                          LAMBDA c : c.op = "get_attribute" /\ c.ok
                                     /\ Truthy(page.links[c.n].href))
    IN  [j \in 1..Len(read) |->
            urljoin(PageUrl(page, url, read[j].n), page.links[read[j].n].href)]

\* the pagination script has returned
Paginated == jpc = "extract"

\* pages starts with the original URL, has no duplicate and at most 3
\* entries and lists the resolved next URLs in the order of the iterations;
\* at most 2 next controls are clicked
PagesTelemetry ==
    Paginated =>
        LET pages == js_result.interactions.pages
            made == CallsOf("pagination")
        IN  /\ pages[1] = url
            /\ \A i, j \in 1..Len(pages) : pages[i] = pages[j] => i = j
            /\ Len(pages) <= max_pages
            /\ pages = FirstOccurrences(<<url>> \o ResolvedUrls, 1, <<>>)
            /\ Cardinality({i \in 1..Len(made) : made[i].op = "click"})
                  <= max_pages - 1

\* C23: after the pagination script pages starts with the original URL, has
\* no duplicate and at most 3 entries, and lists the resolved next URLs in
\* the order of the iterations; at most 2 next controls are clicked, and no
\* iteration goes on (reads an href, clicks) once an iteration found no
\* visible next control.
C23_Pagination ==
    /\ PagesTelemetry
    /\ Paginated =>
          LET made == CallsOf("pagination")
          IN  \A i \in 1..Len(made) :
                  \A j \in 1..made[i].n : ~NoVisibleControl(j)

\* the only control found is one whose is_visible raised under the last
\* selector, and it was clicked
C23_UnknownVisibility ==
    /\ Paginated
    /\ NoVisibleControl(1)
    /\ \E i \in 1..Len(page.calls) :
          /\ page.calls[i].script = "pagination"
          /\ page.calls[i].op = "click"
          /\ page.calls[i].n = 1
          /\ page.calls[i].sel = Len(next_selectors)

\* the navigation of line 304 raised
NavigationFailed ==
    /\ page.calls # <<>>
    /\ page.calls[Len(page.calls)] = Call("goto", "goto", 0, 0, FALSE)

\* C24: when the render pass returns after a navigation timeout, its errors
\* hold exactly one entry with phase "render"; when it returns after any
\* other exception, that exception is recorded with phase "js_scrape"; the
\* render pass returns in both cases.
C24_RenderErrors ==
    (pc = "js_run" /\ jpc = "return" /\ pending # NoException) =>
        /\ (NavigationFailed /\ pending = PlaywrightTimeout) =>
              CountPhase(js_result.errors, "render") = 1
        /\ pending # PlaywrightTimeout =>
              \E i \in 1..Len(js_result.errors) :
                  js_result.errors[i] = [message |-> pending.message,
                                         phase |-> "js_scrape"]

\* the render pass returned after a navigation timeout, with one error
C24_NavigationTimeout ==
    /\ pc = "js_run" /\ jpc = "return"
    /\ NavigationFailed
    /\ pending = PlaywrightTimeout
    /\ js_result.errors = <<[message |-> "Timeout: Timeout 30000ms exceeded.",
                             phase |-> "render"]>>
    /\ browser = "closed"

\* the render pass returned after the launch of the browser failed
C24_LaunchFailure ==
    /\ pc = "js_run" /\ jpc = "return"
    /\ browser = "none"
    /\ js_result.errors = <<[message |-> "net::ERR_CONNECTION_REFUSED",
                             phase |-> "playwright"]>>

\* the scripts whose calls the page received, in the order of their first call
RECURSIVE ScriptsFrom(_, _)
ScriptsFrom(i, seen) ==
    IF i > Len(page.calls) THEN seen
    ELSE ScriptsFrom(i + 1,
             IF seen # <<>> /\ seen[Len(seen)] = page.calls[i].script THEN seen
             ELSE Append(seen, page.calls[i].script))

\* the steps of lines 304-321 in which the page receives a call whatever it
\* shows (pagination makes a call only if it finds a next control)
StepsOfPass ==
    <<"goto", "wait_body", "noise", "tabs", "load_more", "scroll", "content">>

\* a call of script s failed
Failed(s) == \E i \in 1..Len(page.calls) :
                 page.calls[i].script = s /\ ~page.calls[i].ok

\* navigation and the wait for the body element succeeded
BodySeen ==
    /\ Len(page.calls) >= 2
    /\ page.calls[1].ok
    /\ page.calls[2] = Call("wait_body", "wait_for_selector", 0, 0, TRUE)

\* C25: once navigation and the body wait succeeded, a failing sub-step of
\* noise removal, tab reveal, load-more, scroll or pagination does not end
\* the page session: when the inner try is left, every script has run, the
\* final markup has been read and, unless reading or extracting raised, meta
\* and sections were extracted.
C25_ScriptsSwallow ==
    (BodySeen /\ jpc \in {"finally", "return"}) =>
        /\ SelectSeq(ScriptsFrom(1, <<>>), LAMBDA s : s # "pagination") = StepsOfPass
        /\ Len(CallsOf("noise")) = Len(noise_selectors)
        /\ \A k \in 1..Len(load_more_selectors) :
              \E i \in 1..Len(page.calls) :
                  page.calls[i].script = "load_more" /\ page.calls[i].sel = k
        /\ Len(js_result.interactions.pages) >= 1
        /\ ~Failed("content") =>
              CountPhase(js_result.errors, "render") = 0
        /\ (jpc = "finally" /\ pending = NoException) =>
              /\ DOMAIN js_result.meta
                    = {"title", "description", "language", "canonical", "strategy"}
              /\ js_result.meta.strategy = "js"

\* a sub-step of every script failed, and the markup was read and extracted
C25_Witness ==
    /\ jpc = "finally"
    /\ pending = NoException
    /\ Failed("noise") /\ Failed("tabs") /\ Failed("load_more")
    /\ Failed("scroll") /\ Failed("pagination")
    /\ ~Failed("content")
    /\ Len(js_result.sections) = MaxSections
    /\ js_result.meta.title = "Rendered Domain"
    /\ [k \in 1..Len(js_result.errors) |-> js_result.errors[k].phase]
          = <<"scroll", "pagination">>

\* the position of a script in the order of lines 304-321
StepOrder ==
    <<"goto", "wait_body", "noise", "tabs", "load_more", "scroll",
      "pagination", "content">>

Rank(script) == CHOOSE r \in 1..Len(StepOrder) : StepOrder[r] = script

\* an entry of clicks written by the tab loop (line 394)
IsTabEntry(c) == Len(c) >= 7 /\ SubSeq(c, Len(c) - 6, Len(c) - 2) = ":nth("

\* C26: within one render pass the page receives the calls of navigation,
\* body wait, noise removal, tab reveal, load-more, scroll, pagination and
\* the reading of the final markup in this order, no call of a step after a
\* call of a later step; navigation, body wait and reading happen once; in
\* clicks every entry of the tab loop precedes every entry of the load-more
\* loop.
C26_StepsInSequence ==
    /\ \A i \in 1..(Len(page.calls) - 1) :
          Rank(page.calls[i].script) <= Rank(page.calls[i + 1].script)
    /\ \A s \in {"goto", "wait_body", "content"} : Len(CallsOf(s)) <= 1
    /\ LET clicks == js_result.interactions.clicks
       IN  \A i \in 1..Len(clicks) : \A j \in 1..Len(clicks) :
               (IsTabEntry(clicks[j]) /\ ~IsTabEntry(clicks[i])) => j < i

\* a render pass in which every step made a call and both loops recorded
\* clicks
C26_Witness ==
    /\ jpc = "finally"
    /\ ScriptsFrom(1, <<>>) = StepOrder
    /\ \E i, j \in 1..Len(js_result.interactions.clicks) :
          /\ IsTabEntry(js_result.interactions.clicks[i])
          /\ ~IsTabEntry(js_result.interactions.clicks[j])

\* the click script has returned
Clicked == jpc \in {"scrolls", "pagination", "extract"}

\* the first tab selector that matches any element (0: none does)
MatchedTab ==
    LET matching == {k \in 1..Len(tab_selectors) : page.tabs[k] > 0}
    IN  IF matching = {} THEN 0
        ELSE CHOOSE k \in matching : \A j \in matching : k <= j

\* C27: tab reveal queries the selector patterns in priority order and stops
\* at the first one that matches any element, whatever its clicks do; it
\* clicks at most 3 of the matches, and clicks holds one entry "selector:nth(i)"
\* for each click that succeeded, in order, and none for a click that raised.
C27_TabReveal ==
    Clicked =>
        LET made == CallsOf("tabs")
            queries == SelectSeq(made, LAMBDA c : c.op = "query_selector_all")
            clicked == SelectSeq(made, LAMBDA c : c.op = "click")
            good == SelectSeq(clicked, LAMBDA c : c.ok)
            k == MatchedTab
        IN  /\ \A i \in 1..Len(queries) : queries[i].sel = i
            /\ Len(queries) = (IF k = 0 THEN Len(tab_selectors) ELSE k)
            /\ Len(clicked) <= 3
            /\ k # 0 => Len(clicked) = Min(page.tabs[k], 3)
            /\ \A i \in 1..Len(clicked) :
                  /\ clicked[i].sel = k
                  /\ clicked[i].n = i - 1
                  /\ clicked[i].ok = (i - 1 \notin page.tab_fail)
            /\ SelectSeq(js_result.interactions.clicks, IsTabEntry)
                  = [i \in 1..Len(good) |->
                        tab_selectors[k] \o ":nth(" \o Digit(good[i].n) \o ")"]

\* the query of the first selector raised, the second matched nothing, the
\* third matched 4 elements of which 3 were clicked, the second click raised
C27_Witness ==
    /\ Clicked
    /\ page.tabs = <<-1, 0, MaxMatches, MaxMatches - 2, 0>>
    /\ page.tab_fail = {1}
    /\ js_result.interactions.clicks
          = <<".tab:not(.active):nth(0)", ".tab:not(.active):nth(2)">>

\* every click on the matches of the first matching selector raised, a later
\* selector matches too and is not tried
C27_AllClicksFailed ==
    /\ Clicked
    /\ page.tabs = <<0, MaxMatches, MaxMatches, 0, 0>>
    /\ page.tab_fail = {0, 1, 2}
    /\ js_result.interactions.clicks = <<>>
    /\ Len(CallsOf("tabs")) = 5

\* what attempt i (from 0) of the k-th load-more selector meets
Met(k, i) == IF i + 1 <= Len(page.more[k]) THEN page.more[k][i + 1] ELSE "none"

\* C28: load-more handles every pattern of its list, in order; for each
\* pattern it queries and clicks at most 3 times, queries again only after a
\* click that succeeded, clicks only a visible match, and leaves the pattern
\* for the next one when a query finds no visible match or a query or click
\* raises; clicks holds one entry "selector:click(i)" for each click that
\* succeeded, in order.
C28_LoadMore ==
    Clicked =>
        LET made == CallsOf("load_more")
            good == SelectSeq(made, LAMBDA c : c.op = "click" /\ c.ok)
        IN  /\ \A k \in 1..Len(load_more_selectors) :
                  LET queries == SelectSeq(made, LAMBDA c :
                                     c.sel = k /\ c.op = "query_selector")
                      clicked == SelectSeq(made, LAMBDA c :
                                     c.sel = k /\ c.op = "click")
                  IN  /\ Len(queries) \in 1..3
                      /\ Len(clicked) <= 3
                      /\ \A i \in 1..Len(queries) : queries[i].n = i - 1
                      /\ \A i \in 2..Len(queries) : Met(k, i - 2) = "ok"
                      /\ \A i \in 1..Len(clicked) :
                            /\ clicked[i].n = i - 1
                            /\ Met(k, i - 1) \in {"ok", "fail"}
                            /\ clicked[i].ok = (Met(k, i - 1) = "ok")
                      /\ Len(clicked) = Cardinality({i \in 1..Len(queries) :
                                            Met(k, i - 1) \in {"ok", "fail"}})
            /\ \A i \in 1..(Len(made) - 1) : made[i].sel <= made[i + 1].sel
            /\ SelectSeq(js_result.interactions.clicks, LAMBDA c : ~IsTabEntry(c))
                  = [i \in 1..Len(good) |->
                        load_more_selectors[good[i].sel]
                            \o ":click(" \o Digit(good[i].n) \o ")"]

\* the button of the first pattern stays visible and is clicked 3 times, the
\* second click on the button of the last pattern raises
C28_Witness ==
    /\ Clicked
    /\ page.more[1] = Oks(MaxAttempts)
    /\ page.more[7] = <<"ok", "fail", "ok">>
    /\ js_result.interactions.clicks
          = <<"button:has-text(\"Load more\"):click(0)",
              "button:has-text(\"Load more\"):click(1)",
              "button:has-text(\"Load more\"):click(2)",
              "[class*=\"show-more\"]:click(0)">>

\* the query of a pattern raised and the next pattern was still clicked
C28_NextPattern ==
    /\ Clicked
    /\ page.more[2] = <<"raise">>
    /\ js_result.interactions.clicks = <<"button:has-text(\"View more\"):click(0)">>

-----------------------------------------------------------------------------
(* Properties of the content extractor, continued *)

\* the deduplication rule for the i-th section of secs: it is the first with
\* its non-empty fingerprint, or its fingerprint is empty and it has a heading
RuleKeeps(secs, i) ==
    IF Fingerprint(secs[i]) # ""
    THEN \A j \in 1..(i - 1) : Fingerprint(secs[j]) # Fingerprint(secs[i])
    ELSE Get(Get(secs[i], "content", <<>>), "headings", <<>>) # <<>>

\* the sections of secs from the i-th on that the rule keeps
RECURSIVE RuleFrom(_, _)
RuleFrom(secs, i) ==
    IF i > Len(secs) THEN <<>>
    ELSE (IF RuleKeeps(secs, i) THEN <<secs[i]>> ELSE <<>>) \o RuleFrom(secs, i + 1)

C29_LongerInputs ==
    (dedup_calls = 1 /\ Len(dedup_in) >= 2) => esections = RuleFrom(dedup_in, 1)

\* a single section without text and without headings was returned
C29_SingleEmpty ==
    /\ dedup_calls = 1
    /\ dedup_in = <<SectionSample("footer-5", "  ", <<>>)>>
    /\ esections = dedup_in

\* the trimmed non-empty texts of the h1..h6 descendants of el in document
\* order
HeadingsInDocumentOrder(el) ==
    SelectSeq(Texts(Css(el, {"h1", "h2", "h3", "h4", "h5", "h6"})),
              LAMBDA t : t # "")

\* C30: the headings of a section are the trimmed non-empty texts of all
\* h1..h6 descendants of its element in document order, and a section with
\* headings is labelled with the first of them, cut to 80 characters.
C30_Headings ==
    (Processed /\ section # [id |-> None]) =>
        /\ section.content.headings = HeadingsInDocumentOrder(element)
        /\ section.content.headings # <<>> =>
              section.label = Prefix(section.content.headings[1], 80)

\* the label of a section with headings is the first of the headings the
\* section has, cut to 80 characters
C30_Label ==
    (Processed /\ section # [id |-> None] /\ section.content.headings # <<>>) =>
        section.label = Prefix(section.content.headings[1], 80)

\* a section whose h3 precedes its h2 in the markup has the h2 first
C30_LevelOrder ==
    /\ Processed
    /\ HeadingsInDocumentOrder(element) = <<"Questions", "Answers">>
    /\ section.content.headings = <<"Answers", "Questions">>
    /\ section.label = "Answers"

\* the elements of the document in document order; an element is identified
\* by its position in this sequence
Elements == Descendants(doc, 1)

\* the positions of the elements with that tag, ascending
PositionsOf(tag) ==
    SelectSeq([i \in 1..Len(Elements) |-> i], LAMBDA i : Elements[i].tag = tag)

\* the position of the first element with that tag, if there is one
FirstOf(tag) ==
    IF PositionsOf(tag) = <<>> THEN <<>> ELSE <<PositionsOf(tag)[1]>>

\* first main, article, header, nav, footer, then every section element
CorePositions ==
    FirstOf("main") \o FirstOf("article") \o FirstOf("header") \o FirstOf("nav")
        \o FirstOf("footer") \o PositionsOf("section")

\* landmark discovery has just finished (line 617); the list is not
\* written afterwards
LandmarksFound == epc = "loop" /\ idx = 0

\* C31: the landmark list starts with the first main, article, header, nav
\* and footer and every section element, in this order; what follows are
\* article elements, present only when fewer than 3 landmarks were found
\* before them, each different from every landmark before it; the body is
\* the only landmark exactly when nothing else was found; no element is
\* listed twice
C31_Landmarks ==
    LandmarksFound =>
        LET core == CorePositions
            k    == Len(core)
            n    == Len(landmarks)
            body == PositionsOf("body")
        IN  IF k = 0
            THEN /\ PositionsOf("article") = <<>>
                 /\ landmarks = [i \in 1..Len(body) |-> <<"body", Elements[body[i]]>>]
                 /\ Len(body) = 1
            ELSE /\ n >= k
                 /\ \A i \in 1..k :
                        landmarks[i] = <<Elements[core[i]].tag, Elements[core[i]]>>
                 /\ \A i, j \in 1..k : i # j => core[i] # core[j]
                 /\ n > k => k < 3
                 /\ \A i \in (k + 1)..n :
                        /\ landmarks[i][1] = "article"
                        /\ \E p \in 1..Len(Elements) :
                               /\ Elements[p] = landmarks[i][2]
                               /\ Elements[p].tag = "article"
                        /\ \A j \in 1..(i - 1) : landmarks[j][2] # landmarks[i][2]
                 /\ \A i \in 1..n : landmarks[i][1] # "body"

\* fewer than 3 landmarks were found and a second article was added
C31_Witness ==
    /\ LandmarksFound
    /\ Len(CorePositions) \in 1..2
    /\ Len(landmarks) = Len(CorePositions) + 1
    /\ landmarks[Len(landmarks)][1] = "article"

\* nothing but the body was found
C31_BodyOnly ==
    /\ LandmarksFound
    /\ CorePositions = <<>>
    /\ Len(landmarks) = 1
    /\ landmarks[1][1] = "body"

\* three landmarks were found, so that a second article is not a landmark
C31_ArticlesSkipped ==
    /\ LandmarksFound
    /\ Len(landmarks) = Len(CorePositions)
    /\ Len(landmarks) >= 3
    /\ Len(PositionsOf("article")) = 2
    /\ Elements[PositionsOf("article")[1]] # Elements[PositionsOf("article")[2]]

\* the section types
SectionTypes == {"hero", "nav", "footer", "faq", "pricing", "grid", "list", "section"}

\* the keyword groups in their order of priority
KeywordGroups ==
    << [type |-> "hero",    words |-> {"hero", "banner", "jumbotron", "masthead"}],
       [type |-> "nav",     words |-> {"nav", "menu", "navigation", "navbar"}],
       [type |-> "footer",  words |-> {"footer", "foot"}],
       [type |-> "faq",     words |-> {"faq", "question", "accordion"}],
       [type |-> "pricing", words |-> {"pricing", "price", "plan", "tier"}],
       [type |-> "grid",    words |-> {"grid", "gallery", "cards"}] >>

\* the groups with a keyword in the lowercased class or id of the element
MatchingGroups(el) ==
    LET combined == Lower(Attr(el, "class", "") \o " " \o Attr(el, "id", ""))
    IN  { g \in 1..Len(KeywordGroups) :
            \E w \in KeywordGroups[g].words : Contains(combined, w) }

\* the types given to landmarks by their kind
KindTypes == [header |-> "hero", nav |-> "nav", footer |-> "footer", article |-> "section"]

\* _process_section has just returned the section of the landmark `element`
LandmarkProcessed == epc = "loop" /\ idx >= 1

\* C32: a header, nav, footer or article landmark is typed hero, nav,
\* footer, section whatever its class and id; any other landmark is typed
\* by the first keyword group that matches its class and id, else list if
\* a list was extracted from it, else section; every section has one of
\* the eight types
C32_SectionType ==
    /\ LandmarkProcessed =>
          LET kind    == landmarks[idx][1]
              matches == MatchingGroups(element)
          IN  /\ element = landmarks[idx][2]
              /\ section.type =
                    IF kind \in DOMAIN KindTypes THEN KindTypes[kind]
                    ELSE IF matches # {}
                    THEN KeywordGroups[CHOOSE g \in matches :
                                          \A h \in matches : g <= h].type
                    ELSE IF section.content.lists # <<>> THEN "list"
                    ELSE "section"
    /\ \A i \in 1..Len(esections) : esections[i].type \in SectionTypes
    /\ \A i \in 1..Len(heading_sections) : heading_sections[i].type \in SectionTypes

\* a main or section landmark with keywords of the nav and footer groups
C32_Witness ==
    /\ LandmarkProcessed
    /\ landmarks[idx][1] \in {"main", "section"}
    /\ MatchingGroups(element) = {2, 3}
    /\ section.type = "nav"

\* a footer landmark with keywords of other groups
C32_KindOverrides ==
    /\ LandmarkProcessed
    /\ landmarks[idx][1] = "footer"
    /\ MatchingGroups(element) = {1, 6}
    /\ section.type = "footer"

\* a landmark without keywords, with a list element without items
C32_EmptyList ==
    /\ LandmarkProcessed
    /\ landmarks[idx][1] = "main"
    /\ MatchingGroups(element) = {}
    /\ Css(element, {"ul", "ol"}) # <<>>
    /\ section.type = "section"

\* a landmark without keywords, with a list
C32_List ==
    /\ LandmarkProcessed
    /\ landmarks[idx][1] = "section"
    /\ MatchingGroups(element) = {}
    /\ section.type = "list"

-----------------------------------------------------------------------------
(* Properties of the fetch pass and of the flow of scrape *)

\* the fetch pass has returned and scrape has not gone on yet
FetchReturned == pc = "static_ret"

\* C33: the fetch pass issues one GET on its own client and does not
\* retry; a failed fetch returns no sections and exactly one error, with
\* phase "fetch": for an HTTP status error the message holds the status and
\* there is a suggestion to try rendering, for a timeout the message says
\* "timed out", for any other failure there is just a message; the fetch
\* pass returns in every case and nothing is raised
C33_FetchOutcomes ==
    /\ client.gets <= 1
    /\ client.gets = fetch_calls
    /\ pc = "static_get" => client.state = "open" /\ raised = NoException
    /\ FetchReturned =>
          LET errors == static_result.errors
          IN  /\ client.gets = 1
              /\ client.state = "closed"
              /\ raised = NoException
              /\ static_result.interactions = NoInteractions
              /\ IF client.answer = "ok"
                 THEN errors = <<>>
                 ELSE /\ static_result.sections = <<>>
                      /\ Len(errors) = 1
                      /\ errors[1].phase = "fetch"
                      /\ CASE client.answer = "status" ->
                                /\ DOMAIN errors[1] = {"message", "phase", "suggestion"}
                                /\ Prefix(errors[1].message, 8) = "HTTP " \o client.status
                                /\ Contains(errors[1].suggestion, "Try JS rendering")
                           [] client.answer = "timeout" ->
                                /\ DOMAIN errors[1] = {"message", "phase"}
                                /\ Contains(errors[1].message, "timed out")
                           [] OTHER ->
                                /\ DOMAIN errors[1] = {"message", "phase"}
                                /\ errors[1].message # ""

\* the GET was answered with a status error
C33_Witness ==
    /\ FetchReturned
    /\ client.answer = "status"
    /\ client.status = "500"
    /\ static_result.errors[1].message = "HTTP 500: Internal Server Error"

\* the GET timed out
C33_Timeout ==
    /\ FetchReturned
    /\ client.answer = "timeout"
    /\ Len(static_result.errors) = 1

\* the markup was received and its extraction failed
C33_ExtractionFailed ==
    /\ FetchReturned
    /\ client.answer = "extract_error"
    /\ static_result.sections = <<>>
    /\ Len(static_result.errors) = 1

\* the orders in which an invocation can enter its passes and steps
Flows ==
    { <<"fetch">>,
      <<"fetch", "playwright_check">>,
      <<"fetch", "fallback_decision", "render", "merge">>,
      <<"render", "update">> }

IsPrefix(a, b) == Len(a) <= Len(b) /\ a = SubSeq(b, 1, Len(a))

\* the render pass is running or has run
RenderEntered == render_calls >= 1

\* C34: in one invocation the fetch pass is entered at most once and the
\* render pass at most once; when both run, the render pass is entered
\* only after the fetch pass has returned and the decision on rendering was
\* taken on the fetch result; the merge happens only after the render pass
\* has returned
C34_SingleFlow ==
    /\ fetch_calls \in {0, 1}
    /\ render_calls \in {0, 1}
    /\ \E f \in Flows : IsPrefix(trace, f)
    /\ (RenderEntered /\ fetch_calls = 1) =>
          /\ pc \notin {"static_call", "static_get", "static_ret"}
          /\ client.state = "closed"
          /\ needs_js
          /\ needs_js = _needs_js_rendering(static_result)
          /\ PLAYWRIGHT_AVAILABLE
    /\ pc = "js_run" => (jpc # "idle" /\ RenderEntered)
    /\ (trace # <<>> /\ trace[Len(trace)] \in {"merge", "update"}) =>
          /\ pc = "done"
          /\ jpc = "idle"
          /\ render_calls = 1

\* both passes ran and their results were merged
C34_Witness ==
    /\ Done
    /\ trace = <<"fetch", "fallback_decision", "render", "merge">>
    /\ fetch_calls = 1
    /\ render_calls = 1

\* what scrape returns for its own URL and the results of its own passes
\* (lines 57-94)
ResultAlone(v) ==
    IF v.force_js /\ PLAYWRIGHT_AVAILABLE
    THEN Update([ScrapeResult(v.url) EXCEPT !.meta.strategy = "js"], v.js_result)
    ELSE LET updated == Update(ScrapeResult(v.url), v.static_result)
         IN  IF v.needs_js /\ PLAYWRIGHT_AVAILABLE
             THEN Merge([updated EXCEPT !.meta = SetItem(@, "strategy", "js"),
                                        !.errors = Append(@, FallbackDecisionError)],
                        v.js_result)
             ELSE IF v.needs_js
             THEN [updated EXCEPT !.errors = Append(@, PlaywrightCheckError)]
             ELSE updated

\* every section of the result carries that URL
SectionsOf(res, u) == \A i \in 1..Len(res.sections) : res.sections[i].sourceUrl = u

\* the locals v of an invocation hold nothing of another invocation
Own(v) ==
    /\ v.result.url = v.url
    /\ SectionsOf(v.result, v.url)
    /\ SectionsOf(v.static_result, v.url)
    /\ SectionsOf(v.js_result, v.url)
    /\ v.result.interactions.pages[1] = v.url
    /\ v.static_result.interactions.pages = <<v.url>>
    /\ v.js_result.interactions.pages[1] = v.url
    /\ v.client.gets = v.fetch_calls
    /\ v.fetch_calls = 0 =>
          (v.client = NoClient /\ v.static_result = PassResult(v.url, "static"))
    /\ v.pc = "static_get" => v.client.state = "open"
    /\ v.pc \in {"static_ret", "js_call", "js_run", "done"} =>
          v.client.state \in {"none", "closed"}
    /\ v.render_calls = 0 =>
          /\ v.browser = "none"
          /\ v.js_result = PassResult(v.url, "js")
          /\ v.page = PlainPage
    /\ v.pc = "done" => v.result = ResultAlone(v)

\* a step leaves the locals of the waiting invocation as they are, or the
\* two invocations change places and nothing else changes
OtherUntouched ==
    \/ suspended' = suspended
    \/ (suspended' = Locals /\ Locals' = suspended)

\* C35: of two invocations interleaved at their awaits, each has its own
\* result, browser session and client; a step of one leaves the locals of
\* the other as they are, and each returns what its own URL and the results
\* of its own passes give, whatever the other did or failed at
C35_Independent ==
    /\ [](Own(Locals) /\ (suspended.pc # "none" => Own(suspended)))
    /\ [][OtherUntouched]_vars

\* both invocations have returned: one with the sections of its render
\* pass and no error, the other with the error of its failed fetch
C35_Witness ==
    /\ pc = "done"
    /\ suspended.pc = "done"
    /\ suspended.url # url
    /\ result.errors = <<>>
    /\ Len(result.sections) = MaxSections
    /\ CountPhase(suspended.result.errors, "fetch") = 1
    /\ suspended.result.sections = <<>>

\* both invocations have a browser session open at once
C35_TwoSessions ==
    /\ browser = "open"
    /\ suspended.pc = "js_run"
    /\ suspended.browser = "open"
    /\ suspended.page # page

\* one invocation waits for its GET while the other renders
C35_GetDuringRender ==
    /\ pc = "js_run"
    /\ browser = "open"
    /\ suspended.pc = "static_get"
    /\ suspended.client.state = "open"

-----------------------------------------------------------------------------
(* Termination *)

\* the calls of a script with that operation
Ops(script, op) == SelectSeq(page.calls, LAMBDA c : c.script = script /\ c.op = op)

\* the tab loop clicks at most 3 elements, each load-more pattern is tried
\* at most 3 times, scrolling runs at most 3 rounds of at most 5 sub-steps,
\* pagination runs at most max_pages - 1 iterations, no pass is entered twice
LoopBounds ==
    /\ Len(Ops("tabs", "click")) <= 3
    /\ \A k \in 1..Len(load_more_selectors) :
          Len(SelectSeq(Ops("load_more", "query_selector"), LAMBDA c : c.sel = k)) <= 3
    /\ Len(Ops("scroll", "evaluate")) <= 3
    /\ \A i \in 1..Len(Ops("scroll", "evaluate")) :
          Ops("scroll", "evaluate")[i].sel <= 5
    /\ Len(Ops("pagination", "get_attribute")) <= max_pages - 1
    /\ Len(Ops("pagination", "click")) <= max_pages - 1
    /\ fetch_calls <= 1
    /\ render_calls <= 1

\* C36: every invocation of scrape ends with a returned result, provided
\* each external call returns or fails; the loops of the interaction scripts
\* keep to their bounds and no pass is entered twice
C36_Terminates ==
    /\ <>(Done /\ raised = NoException)
    /\ []LoopBounds

\* an invocation has returned after every loop ran to its bound
C36_Witness ==
    /\ Done
    /\ raised = NoException
    /\ Len(Ops("tabs", "click")) = 3
    /\ \E k \in 1..Len(load_more_selectors) :
          Len(SelectSeq(Ops("load_more", "click"), LAMBDA c : c.sel = k)) = 3
    /\ Len(Ops("scroll", "evaluate")) = 3
    /\ \E i \in 1..3 : Ops("scroll", "evaluate")[i].sel = 5
    /\ Len(Ops("pagination", "click")) = max_pages - 1
    /\ Len(page.links) > max_pages - 1

-----------------------------------------------------------------------------
(* Properties of a failed navigation, of pagination and of the allow-list *)

\* the scripts of lines 313-321 that run after the body element was seen
LaterSteps == {"noise", "tabs", "load_more", "scroll", "pagination", "content"}

\* the render pass returns after line 304 or line 310 raised
EarlyFailureReturned ==
    /\ pc = "js_run" /\ jpc = "return"
    /\ Failed("goto") \/ Failed("wait_body")

\* C37 (as claimed): when navigation or the wait for the body element
\* fails, no interaction script and no extraction runs, and the render
\* result has clicks empty, scrolls 0, pages [url], no sections and exactly
\* one error.
C37_EarlyFailure ==
    EarlyFailureReturned =>
        /\ \A i \in 1..Len(page.calls) : page.calls[i].script \notin LaterSteps
        /\ js_result.interactions = NoInteractions
        /\ js_result.sections = <<>>
        /\ Len(js_result.errors) = 1

\* the wait for the body element timed out and closing the browser failed
\* as well: the render result holds two errors
C37_CloseFailedToo ==
    /\ EarlyFailureReturned
    /\ Failed("wait_body")
    /\ browser = "open"
    /\ js_result.interactions = NoInteractions
    /\ js_result.sections = <<>>
    /\ js_result.errors =
          <<[message |-> "Timeout: Timeout 30000ms exceeded.", phase |-> "render"],
            [message |-> PlaywrightError.message, phase |-> "playwright"]>>

\* the rest of the claim: nothing runs after the failure, and the error of
\* the failure is the only one as long as the browser closes
C37_NothingRuns ==
    EarlyFailureReturned =>
        /\ \A i \in 1..Len(page.calls) : page.calls[i].script \notin LaterSteps
        /\ js_result.interactions = NoInteractions
        /\ js_result.sections = <<>>
        /\ js_result.errors[1].phase \in {"render", "js_scrape"}
        /\ Len(js_result.errors) = IF browser = "closed" THEN 1 ELSE 2

\* the wait for the body element failed with another exception; the browser
\* closed and the render result holds one error
C37_BodyWaitFailed ==
    /\ EarlyFailureReturned
    /\ Failed("wait_body")
    /\ browser = "closed"
    /\ Len(js_result.errors) = 1
    /\ js_result.errors[1].phase = "js_scrape"

\* the clicks of the pagination script, in order
PaginationClicks == SelectSeq(CallsOf("pagination"), LAMBDA c : c.op = "click")

\* the URL that iteration n of the pagination loop resolves from its href
NextUrl(n) == urljoin(PageUrl(page, url, n), page.links[n].href)

\* s holds u
InSeq(s, u) == \E j \in 1..Len(s) : s[j] = u

\* C38: once the pagination script has run, pages lists the resolved URL of
\* every next control that was clicked and had an href, whether the click
\* and the wait for the navigation went through or raised: the URL is
\* appended after the href was read and before the click, and a failed click
\* takes nothing out of pages.
C38_PagesKept ==
    jpc \in {"extract", "finally", "return"} =>
        LET made == CallsOf("pagination")
        IN  \A i \in 1..Len(made) :
                made[i].op = "click" =>
                    /\ i > 1
                    /\ made[i - 1].op = "get_attribute"
                    /\ made[i - 1].n = made[i].n
                    /\ made[i - 1].ok
                    /\ Truthy(page.links[made[i].n].href) =>
                          InSeq(js_result.interactions.pages, NextUrl(made[i].n))

\* the second next control was clicked and the click raised: pages ends with
\* its URL, which was never loaded
C38_Witness ==
    /\ jpc = "extract"
    /\ Len(PaginationClicks) = 2
    /\ PaginationClicks[1].ok
    /\ ~PaginationClicks[2].ok
    /\ js_result.interactions.pages =
          <<url, "https://en.Wikipedia.org/wiki/TLA?page=3",
            "https://en.Wikipedia.org/wiki/TLA?page=2">>
    /\ js_result.errors = <<>>

\* the first click raised: pages lists two URLs and one page was loaded
C38_NotLoaded ==
    /\ jpc = "extract"
    /\ Len(PaginationClicks) = 1
    /\ ~PaginationClicks[1].ok
    /\ Len(js_result.interactions.pages) = 2
    /\ js_result.interactions.pages[2] = NextUrl(1)

\* allow-list entry d occurs in host h at position i
OccursAt(d, h, i) ==
    /\ i + Len(d) - 1 <= Len(h)
    /\ SubSeq(h, i, i + Len(d) - 1) = d

\* h is a listed domain or a subdomain of one
ListedOrSubdomain(h) ==
    \E d \in js_heavy_domains :
        \/ h = d
        \/ \E i \in 2..Len(h) : OccursAt("." \o d, h, i - 1) /\ i + Len(d) - 1 = Len(h)

\* the characters of the URL between "//" and the next "/"
HostPart(u) ==
    LET from == CHOOSE i \in 1..Len(u) : SubSeq(u, i, i + 1) = "//"
        upto == CHOOSE j \in (from + 2)..Len(u) :
                    /\ SubSeq(u, j, j) = "/"
                    /\ \A k \in (from + 2)..(j - 1) : SubSeq(u, k, k) # "/"
    IN  SubSeq(u, from + 2, upto - 1)

\* C39: once scrape has classified the host, force_js is true exactly when
\* an allow-list entry occurs at some position of the lowercased network
\* location of the URL; with rendering available a forced host never enters
\* the fetch pass and goes through the render pass once, also a host that
\* only contains an entry; every other invocation enters the fetch pass.
C39_SubstringTest ==
    pc # "start" =>
        /\ domain = Lower(HostPart(url))
        /\ force_js <=> \E d \in js_heavy_domains :
                            \E i \in 1..Len(domain) : OccursAt(d, domain, i)
        /\ (force_js /\ PLAYWRIGHT_AVAILABLE) =>
              /\ fetch_calls = 0
              /\ pc \notin {"static_call", "static_get"}
              /\ Done => render_calls = 1
        /\ (Done /\ ~(force_js /\ PLAYWRIGHT_AVAILABLE)) => fetch_calls = 1

\* a host ending in "box.com", which is neither listed nor a subdomain of a
\* listed domain, went through the render pass without a fetch
C39_Witness ==
    /\ Done
    /\ url = "https://www.dropbox.com/home"
    /\ domain = "www.dropbox.com"
    /\ ~ListedOrSubdomain(domain)
    /\ OccursAt("x.com", domain, 11)
    /\ force_js
    /\ fetch_calls = 0
    /\ render_calls = 1
    /\ Get(result.meta, "strategy", None) = "js"

\* an entry in the middle of the host forces the render pass as well
C39_Middle ==
    /\ Done
    /\ domain = "my-uber.computer.test"
    /\ force_js /\ PLAYWRIGHT_AVAILABLE
    /\ fetch_calls = 0

\* an entry in the path of the URL does not
C39_PathOnly ==
    /\ Done
    /\ url = "https://example.org/x.com"
    /\ ~force_js /\ PLAYWRIGHT_AVAILABLE
    /\ fetch_calls = 1

\* a listed domain written in upper case is forced
C39_Listed ==
    /\ Done
    /\ url = "https://X.com/home"
    /\ ListedOrSubdomain(domain)
    /\ force_js

=============================================================================
